---- MODULE Spec2Model ----
(***************************************************************************)
(* A model of the transactional collection host: the Cluster and its       *)
(* member Chains (host/src/cluster.rs, src/chain/mod.rs), the B-tree        *)
(* (src/collection/btree/mod.rs) with the requests routed to it, the table  *)
(* views and bounds (src/collection/table/view.rs, bounds.rs) and the      *)
(* tensor handlers (host/src/route/collection/tensor.rs).                   *)
(*                                                                         *)
(* Each subsystem has its own variables, initial condition, next-state      *)
(* relation and specification; a specification leaves the variables of the  *)
(* other subsystems at their idle values.                                   *)
(***************************************************************************)
EXTENDS Integers, Sequences, FiniteSets, TLC

VARIABLES
    \* ---- Cluster and Chains
    log,          \* log[d]: the append-only log kept in chain directory d
    subject,      \* subject[c]: the committed state of chain c's subject
    txnState,     \* txnState[t]: where transaction t stands on the cluster
    commitCall,   \* commitCall[t][c]: the call chain.commit(t) made by Cluster::commit
    finalizeCall, \* finalizeCall[t][c]: the call chain.finalize(t) of Cluster::finalize
    rolledBackOn, \* rolledBackOn[t]: the chains that received rollback(t)
    reloaded,     \* the cluster was instantiated again from its directory
    \* ---- B-tree
    btCommitted,  \* the keys of the committed B-tree
    btPending,    \* btPending[t]: the keys transaction t has inserted and deleted
    btStatus,     \* btStatus[t]: active, committed, rolledback or finalized
    \* ---- Table views
    tableRows,    \* the rows of the table, as the reading transaction sees them
    view,         \* the view taken of the table
    viewOut,      \* the rows the view's stream has yielded
    streamed,     \* the view's stream has been read
    viewCount,    \* what the view's count returned, if it was called
    \* ---- delete and update of a view
    wbView,       \* the kind of the view: Limited, Merged or TableSlice
    wbOp,         \* delete or update
    wbLen,        \* the number of rows of the view's stream
    wbPos,        \* the number of rows taken from the stream so far
    wbStreamDone, \* the end of the stream has been seen
    wbInFlight,   \* the rows whose delete_row or update_row is in progress
    wbApplied,    \* wbApplied[r]: how often row r was deleted or updated
    wbFailed,     \* the rows whose delete_row or update_row returned an error
    wbAcc,        \* the accumulator of the fold
    wbRet,        \* what the operation returned
    wbPc,         \* idle, running or done
    \* ---- requests to a B-tree
    rtReq,        \* the request being handled
    rtResp,       \* what the handler returned
    \* ---- functions
    fnCall,       \* the function called and its arguments
    fnResult,     \* what the function returned
    fnStore,      \* what the call did to the block store
    \* ---- sparse copy_from
    cpSource,     \* the items of the source stream
    cpPos,        \* the number of items taken from the source so far
    cpSourceEnd,  \* the end of the source has been seen
    cpInFlight,   \* the items whose write_value_at is in progress
    cpWritten,    \* the items whose write_value_at has completed
    cpFirstErr,   \* the first error of the source or of a write
    cpRet,        \* what the handler returned
    cpPc,         \* idle, running or done
    \* ---- concatenate
    ccShape,      \* the shape of the inputs
    ccAxis,       \* the axis: the empty set for none, or a number
    ccWrites,     \* ccWrites[i + 1]: how the write of input i stands
    ccOut,        \* the elements of the output tensor
    ccRet,        \* what the handler returned
    ccPc          \* idle, writing or done

clusterVars ==
    <<log, subject, txnState, commitCall, finalizeCall, rolledBackOn, reloaded>>

btreeVars == <<btCommitted, btPending, btStatus>>

viewVars == <<tableRows, view, viewOut, streamed, viewCount>>

writebackVars ==
    <<wbView, wbOp, wbLen, wbPos, wbStreamDone, wbInFlight, wbApplied, wbFailed,
      wbAcc, wbRet, wbPc>>

routeVars == <<rtReq, rtResp>>

fnVars == <<fnCall, fnResult>>

copyVars ==
    <<cpSource, cpPos, cpSourceEnd, cpInFlight, cpWritten, cpFirstErr, cpRet, cpPc>>

concatVars == <<ccShape, ccAxis, ccWrites, ccOut, ccRet, ccPc>>

storeVars == <<fnStore>>

vars ==
    <<clusterVars, btreeVars, viewVars, writebackVars, routeVars, fnVars, copyVars,
      concatVars, storeVars>>

\* what the actions of one subsystem leave alone
notCluster ==
    <<btreeVars, viewVars, writebackVars, routeVars, fnVars, copyVars, concatVars, storeVars>>

notBTree ==
    <<clusterVars, viewVars, writebackVars, routeVars, fnVars, copyVars, concatVars, storeVars>>

notView ==
    <<clusterVars, btreeVars, writebackVars, routeVars, fnVars, copyVars, concatVars, storeVars>>

notWriteback ==
    <<clusterVars, btreeVars, viewVars, routeVars, fnVars, copyVars, concatVars, storeVars>>

\* a request to the B-tree writes the keys of the B-tree as well
notRoute ==
    <<clusterVars, viewVars, writebackVars, fnVars, copyVars, concatVars, storeVars>>

notFn ==
    <<clusterVars, btreeVars, viewVars, writebackVars, routeVars, copyVars,
      concatVars, storeVars>>

notCopy ==
    <<clusterVars, btreeVars, viewVars, writebackVars, routeVars, fnVars,
      concatVars, storeVars>>

notConcat ==
    <<clusterVars, btreeVars, viewVars, writebackVars, routeVars, fnVars, copyVars,
      storeVars>>

\* all but the functions and the block store
notFnStore ==
    <<clusterVars, btreeVars, viewVars, writebackVars, routeVars, copyVars,
      concatVars>>

----------------------------------------------------------------------------
(* Bounds of the model *)

\* chain members of the cluster
NumChains == 2
\* keys of a chain's subject
NumChainKeys == 1
\* mutations recorded in the logs of the cluster, all chains together
MaxLog == 2

Chains == 1..NumChains
ChainKeys == 1..NumChainKeys

\* the transactions: two, so that one can commit while the other is pending
Txns == {1, 2}

----------------------------------------------------------------------------
(* Chain: {schema, log, subject}.  A log entry is a mutation of the        *)
(* subject recorded under a transaction, or the commit record of a         *)
(* transaction.                                                            *)

Mutation(t, op, k) == [txn |-> t, op |-> op, key |-> k]

CommitRecord(t) == [txn |-> t, op |-> "commit", key |-> 0]

ApplyMutation(s, e) ==
    IF e.op = "insert" THEN s \cup {e.key} ELSE s \ {e.key}

RECURSIVE ApplyAll(_, _)
ApplyAll(s, recs) ==
    IF recs = <<>> THEN s
    ELSE ApplyAll(ApplyMutation(s, Head(recs)), Tail(recs))

\* the mutations transaction t recorded in a log, in log order
TxnRecords(l, t) ==
    SelectSeq(l, LAMBDA e : e.txn = t /\ e.op # "commit")

CommittedIn(l, t) ==
    \E i \in 1..Len(l) : l[i] = CommitRecord(t)

\* Chain::load: every committed record of the log is replayed, in the order
\* in which the transactions committed, into an empty subject
RECURSIVE ReplayFrom(_, _, _)
ReplayFrom(l, i, s) ==
    IF i > Len(l) THEN s
    ELSE IF l[i].op = "commit"
         THEN ReplayFrom(l, i + 1,
                         ApplyAll(s, TxnRecords(SubSeq(l, 1, i - 1), l[i].txn)))
         ELSE ReplayFrom(l, i + 1, s)

SyncChain_load(l) == ReplayFrom(l, 1, {})

\* a replay that takes every record of the log, committed or not
SyncChain_load_all(l) == ApplyAll({}, SelectSeq(l, LAMBDA e : e.op # "commit"))

----------------------------------------------------------------------------
(* Cluster::instantiate gives every chain member the subdirectory named     *)
(* after its id.                                                            *)

\* a variant in which every chain is given the same directory
ChainDir_shared(id) == 1

ChainDir(id) == id

\* a variant in which the first chain is left out
ClusterChains_butFirst == Chains \ {1}

\* the chains Cluster::commit and Cluster::finalize forward to
ClusterChains == Chains

\* the chains a rollback of the cluster is forwarded to: impl Transact for
\* Cluster defines commit and finalize and no rollback
ClusterRollbackChains == {}

\* join_all resolves once every future it holds has resolved
JoinAll(calls) == \A c \in DOMAIN calls : calls[c] # "running"

NoCalls == [c \in Chains |-> "none"]

\* the number of mutations recorded in the logs of the directories in D
RECURSIVE Recorded(_)
Recorded(D) ==
    IF D = {} THEN 0
    ELSE LET d == CHOOSE x \in D : TRUE
         IN  Len(SelectSeq(log[d], LAMBDA e : e.op # "commit")) + Recorded(D \ {d})

LogSize == Recorded(Chains)

\* transaction t still has pending state on chain c
PendingOn(c, t) ==
    /\ ~CommittedIn(log[ChainDir(c)], t)
    /\ c \notin rolledBackOn[t]
    /\ finalizeCall[t][c] # "returned"
    /\ TxnRecords(log[ChainDir(c)], t) # <<>>

\* what a read of chain c under transaction t observes
ChainView(c, t) ==
    IF PendingOn(c, t)
    THEN ApplyAll(subject[c], TxnRecords(log[ChainDir(c)], t))
    ELSE subject[c]

InitCluster ==
    /\ log = [d \in Chains |-> <<>>]
    /\ subject = [c \in Chains |-> {}]
    /\ txnState = [t \in Txns |-> "pending"]
    /\ commitCall = [t \in Txns |-> NoCalls]
    /\ finalizeCall = [t \in Txns |-> NoCalls]
    /\ rolledBackOn = [t \in Txns |-> {}]
    /\ reloaded = FALSE

\* Chain::put: the mutation is appended to the log under the transaction
ChainPut(c, t, op, k) ==
    /\ txnState[t] = "pending"
    /\ LogSize < MaxLog
    /\ log' = [log EXCEPT ![ChainDir(c)] = Append(@, Mutation(t, op, k))]
    /\ UNCHANGED <<subject, txnState, commitCall, finalizeCall, rolledBackOn, reloaded>>
    /\ UNCHANGED notCluster

\* Cluster::commit: join_all over chain.commit(txn_id) of every chain
ClusterCommitBegin(t) ==
    /\ txnState[t] = "pending"
    /\ txnState' = [txnState EXCEPT ![t] = "committing"]
    /\ commitCall' = [commitCall EXCEPT ![t] =
                        [c \in Chains |-> IF c \in ClusterChains
                                          THEN "running" ELSE "none"]]
    /\ UNCHANGED <<log, subject, finalizeCall, rolledBackOn, reloaded>>
    /\ UNCHANGED notCluster

\* Chain::commit: the transaction's mutations reach the subject and its
\* commit record the log
Chain_commit(c, t) ==
    /\ subject' = [subject EXCEPT ![c] =
                     ApplyAll(@, TxnRecords(log[ChainDir(c)], t))]
    /\ log' = [log EXCEPT ![ChainDir(c)] = Append(@, CommitRecord(t))]

ChainCommit(c, t) ==
    /\ txnState[t] = "committing"
    /\ commitCall[t][c] = "running"
    /\ Chain_commit(c, t)
    /\ commitCall' = [commitCall EXCEPT ![t][c] = "returned"]
    /\ UNCHANGED <<txnState, finalizeCall, rolledBackOn, reloaded>>
    /\ UNCHANGED notCluster

\* a chain's commit fails: nothing of the transaction is committed on it.
\* commit returns no value, so the failure is either swallowed by the
\* chain or unwinds through join_all.
ChainCommitFail(c, t) ==
    /\ txnState[t] = "committing"
    /\ commitCall[t][c] = "running"
    /\ commitCall' = [commitCall EXCEPT ![t][c] = "failed"]
    /\ UNCHANGED <<log, subject, txnState, finalizeCall, rolledBackOn, reloaded>>
    /\ UNCHANGED notCluster

\* Cluster::commit returns (the unit value) when join_all has resolved
ClusterCommitEnd(t) ==
    /\ txnState[t] = "committing"
    /\ JoinAll([c \in ClusterChains |-> commitCall[t][c]])
    /\ txnState' = [txnState EXCEPT ![t] = "committed"]
    /\ UNCHANGED <<log, subject, commitCall, finalizeCall, rolledBackOn, reloaded>>
    /\ UNCHANGED notCluster

\* the failure of a chain's commit unwinds through join_all: Cluster::commit
\* ends at once and the commits still running are dropped
ClusterCommitUnwind(t) ==
    /\ txnState[t] = "committing"
    /\ \E c \in Chains : commitCall[t][c] = "failed"
    /\ txnState' = [txnState EXCEPT ![t] = "aborted"]
    /\ commitCall' = [commitCall EXCEPT ![t] =
                        [c \in Chains |-> IF commitCall[t][c] = "running"
                                          THEN "dropped" ELSE commitCall[t][c]]]
    /\ UNCHANGED <<log, subject, finalizeCall, rolledBackOn, reloaded>>
    /\ UNCHANGED notCluster

\* Chain::rollback
Chain_rollback(c, t) == c

\* the transaction is rolled back; the cluster forwards the rollback to
\* ClusterRollbackChains
TxnRollback(t) ==
    /\ txnState[t] = "pending"
    /\ txnState' = [txnState EXCEPT ![t] = "rolledback"]
    /\ rolledBackOn' = [rolledBackOn EXCEPT ![t] =
                          @ \cup {Chain_rollback(c, t) : c \in ClusterRollbackChains}]
    /\ UNCHANGED <<log, subject, commitCall, finalizeCall, reloaded>>
    /\ UNCHANGED notCluster

\* Cluster::finalize: join_all over chain.finalize(txn_id) of every chain
ClusterFinalizeBegin(t) ==
    /\ txnState[t] \in {"committed", "aborted", "rolledback"}
    /\ finalizeCall[t] = NoCalls
    /\ finalizeCall' = [finalizeCall EXCEPT ![t] =
                          [c \in Chains |-> IF c \in ClusterChains
                                            THEN "running" ELSE "none"]]
    /\ UNCHANGED <<log, subject, txnState, commitCall, rolledBackOn, reloaded>>
    /\ UNCHANGED notCluster

\* Chain::finalize
ChainFinalize(c, t) ==
    /\ finalizeCall[t][c] = "running"
    /\ finalizeCall' = [finalizeCall EXCEPT ![t][c] = "returned"]
    /\ UNCHANGED <<log, subject, txnState, commitCall, rolledBackOn, reloaded>>
    /\ UNCHANGED notCluster

ClusterFinalizeEnd(t) ==
    /\ txnState[t] \in {"committed", "aborted", "rolledback"}
    /\ finalizeCall[t] # NoCalls
    /\ JoinAll([c \in ClusterChains |-> finalizeCall[t][c]])
    /\ txnState' = [txnState EXCEPT ![t] =
                      IF @ = "committed" THEN "finalized" ELSE "discarded"]
    /\ commitCall' = [commitCall EXCEPT ![t] = NoCalls]
    /\ UNCHANGED <<log, subject, finalizeCall, rolledBackOn, reloaded>>
    /\ UNCHANGED notCluster

\* Cluster::instantiate over a directory that holds the chains already: the
\* state in memory is gone, every chain is loaded from its directory, and
\* the transactions that were in flight are lost
ClusterReload ==
    /\ ~reloaded
    /\ reloaded' = TRUE
    /\ subject' = [c \in Chains |-> SyncChain_load(log[ChainDir(c)])]
    /\ txnState' = [t \in Txns |->
                      IF txnState[t] \in {"finalized", "discarded"}
                      THEN txnState[t] ELSE "lost"]
    /\ commitCall' = [t \in Txns |-> NoCalls]
    /\ finalizeCall' = [t \in Txns |-> NoCalls]
    /\ UNCHANGED <<log, rolledBackOn>>
    /\ UNCHANGED notCluster

IdleCluster == InitCluster

\* every transaction has recorded an insert on every chain and is pending
InitPending ==
    /\ log = [d \in Chains |-> [t \in Txns |-> Mutation(t, "insert", 1)]]
    /\ subject = [c \in Chains |-> {}]
    /\ txnState = [t \in Txns |-> "pending"]
    /\ commitCall = [t \in Txns |-> NoCalls]
    /\ finalizeCall = [t \in Txns |-> NoCalls]
    /\ rolledBackOn = [t \in Txns |-> {}]
    /\ reloaded = FALSE

----------------------------------------------------------------------------
(* The B-tree.  Keys have one column; a range is a start and an end bound,  *)
(* each unbounded, inclusive or exclusive.                                  *)

\* the values of the key column
NumKeys == 2

Keys == 1..NumKeys

Unbounded == [kind |-> "Unbounded", v |-> 0]

Inclusive(v) == [kind |-> "In", v |-> v]

Exclusive(v) == [kind |-> "Ex", v |-> v]

Bounds == {Unbounded} \cup {Inclusive(v) : v \in Keys} \cup {Exclusive(v) : v \in Keys}

BTreeRanges == [start : Bounds, end : Bounds]

\* BTreeRange::default()
RangeDefault == [start |-> Unbounded, end |-> Unbounded]

\* a range selects the keys that lie between its two bounds
RangeContains(r, k) ==
    /\ CASE r.start.kind = "Unbounded" -> TRUE
         [] r.start.kind = "In" -> r.start.v <= k
         [] r.start.kind = "Ex" -> r.start.v < k
    /\ CASE r.end.kind = "Unbounded" -> TRUE
         [] r.end.kind = "In" -> k <= r.end.v
         [] r.end.kind = "Ex" -> k < r.end.v

\* the keys of S in ascending collator order
Ascending(S) == SelectSeq([i \in 1..NumKeys |-> i], LAMBDA k : k \in S)

Reverse(s) == [i \in 1..Len(s) |-> s[Len(s) + 1 - i]]

SeqSet(s) == {s[i] : i \in 1..Len(s)}

NoPending == [adds |-> {}, dels |-> {}]

(* BTreeFile: the committed keys and, per transaction, an overlay of       *)
(* pending inserts and deletes that is merged into its reads, folded into  *)
(* the committed keys on commit and discarded on rollback.                 *)

File_visible(t) == (btCommitted \ btPending[t].dels) \cup btPending[t].adds

File_stream(t, r, reverse) ==
    LET s == Ascending({k \in File_visible(t) : RangeContains(r, k)})
    IN  IF reverse THEN Reverse(s) ELSE s

File_len(t, r) == Cardinality({k \in File_visible(t) : RangeContains(r, k)})

File_is_empty(t) == File_visible(t) = {}

File_insert(t, k) ==
    /\ btPending' = [btPending EXCEPT ![t] =
                       [adds |-> @.adds \cup {k}, dels |-> @.dels \ {k}]]
    /\ UNCHANGED btCommitted

File_delete(t, r) ==
    LET R == {k \in Keys : RangeContains(r, k)}
    IN  /\ btPending' = [btPending EXCEPT ![t] =
                           [adds |-> @.adds \ R,
                            dels |-> @.dels \cup (R \cap btCommitted)]]
        /\ UNCHANGED btCommitted

File_commit(t) ==
    /\ btCommitted' = File_visible(t)
    /\ btPending' = [btPending EXCEPT ![t] = NoPending]

File_rollback(t) ==
    /\ btPending' = [btPending EXCEPT ![t] = NoPending]
    /\ UNCHANGED btCommitted

File_finalize(t) ==
    /\ btPending' = [btPending EXCEPT ![t] = NoPending]
    /\ UNCHANGED btCommitted

(* BTreeSlice: a view of a BTreeFile narrowed to a range, read in its own  *)
(* direction.                                                              *)

Slice_keys(h, t, r) ==
    {k \in File_visible(t) : RangeContains(h.range, k) /\ RangeContains(r, k)}

Slice_stream(h, t, r, reverse) ==
    LET s == Ascending(Slice_keys(h, t, r))
    IN  IF reverse # h.reverse THEN Reverse(s) ELSE s

Slice_len(h, t, r) == Cardinality(Slice_keys(h, t, r))

Slice_is_empty(h, t) == Slice_keys(h, t, RangeDefault) = {}

Slice_insert(h, t, k) ==
    /\ RangeContains(h.range, k)
    /\ File_insert(t, k)

Slice_delete(h, t, r) ==
    LET R == {k \in Keys : RangeContains(h.range, k) /\ RangeContains(r, k)}
    IN  /\ btPending' = [btPending EXCEPT ![t] =
                           [adds |-> @.adds \ R,
                            dels |-> @.dels \cup (R \cap btCommitted)]]
        /\ UNCHANGED btCommitted

(* enum BTree { Tree(BTreeFile), View(BTreeSlice) }                        *)

Tree == [kind |-> "Tree", range |-> RangeDefault, reverse |-> FALSE]

View(r, reverse) == [kind |-> "View", range |-> r, reverse |-> reverse]

\* the ranges of the views taken of the tree: all of it, from a key on, or
\* up to a key
ViewRanges ==
    {RangeDefault}
      \cup {[start |-> Inclusive(v), end |-> Unbounded] : v \in Keys}
      \cup {[start |-> Unbounded, end |-> Exclusive(v)] : v \in Keys}

BTrees ==
    {Tree} \cup {View(r, FALSE) : r \in ViewRanges}
           \cup {View(RangeDefault, TRUE)}

\* the ranges deleted: those of the views, and single keys
DeleteRanges ==
    ViewRanges \cup {[start |-> Inclusive(v), end |-> Inclusive(v)] : v \in Keys}

\* a variant of delete that removes every key, whatever the range
BTree_delete_all(h, t, r) == File_delete(t, RangeDefault)

\* impl BTreeInstance for BTree
BTree_delete(h, t, r) ==
    IF h.kind = "Tree" THEN File_delete(t, r) ELSE Slice_delete(h, t, r)

BTree_insert(h, t, k) ==
    IF h.kind = "Tree" THEN File_insert(t, k) ELSE Slice_insert(h, t, k)

BTree_is_empty(h, t) ==
    IF h.kind = "Tree" THEN File_is_empty(t) ELSE Slice_is_empty(h, t)

BTree_len(h, t, r) ==
    IF h.kind = "Tree" THEN File_len(t, r) ELSE Slice_len(h, t, r)

BTree_stream(h, t, r, reverse) ==
    IF h.kind = "Tree" THEN File_stream(t, r, reverse)
    ELSE Slice_stream(h, t, r, reverse)

\* impl Transact for BTree: a view takes no part in the transaction
BTree_commit(h, t) ==
    IF h.kind = "Tree" THEN File_commit(t)
    ELSE UNCHANGED <<btCommitted, btPending>>

\* a variant in which rollback leaves the pending writes in place
BTree_rollback_skipped(h, t) == UNCHANGED <<btCommitted, btPending>>

BTree_rollback(h, t) ==
    IF h.kind = "Tree" THEN File_rollback(t)
    ELSE UNCHANGED <<btCommitted, btPending>>

BTree_finalize(h, t) ==
    IF h.kind = "Tree" THEN File_finalize(t)
    ELSE UNCHANGED <<btCommitted, btPending>>

InitBTree ==
    /\ btCommitted \in SUBSET Keys
    /\ btPending = [t \in Txns |-> NoPending]
    /\ btStatus = [t \in Txns |-> "active"]

IdleBTree ==
    /\ btCommitted = {}
    /\ btPending = [t \in Txns |-> NoPending]
    /\ btStatus = [t \in Txns |-> "active"]

BTreeInsert(h, t, k) ==
    /\ btStatus[t] = "active"
    /\ BTree_insert(h, t, k)
    /\ UNCHANGED btStatus
    /\ UNCHANGED notBTree

BTreeDelete(h, t, r) ==
    /\ btStatus[t] = "active"
    /\ BTree_delete(h, t, r)
    /\ UNCHANGED btStatus
    /\ UNCHANGED notBTree

\* the transaction commits: the tree, its participant, is told to commit
BTreeCommit(t) ==
    /\ btStatus[t] = "active"
    /\ BTree_commit(Tree, t)
    /\ btStatus' = [btStatus EXCEPT ![t] = "committed"]
    /\ UNCHANGED notBTree

BTreeRollback(t) ==
    /\ btStatus[t] = "active"
    /\ BTree_rollback(Tree, t)
    /\ btStatus' = [btStatus EXCEPT ![t] = "rolledback"]
    /\ UNCHANGED notBTree

BTreeFinalize(t) ==
    /\ btStatus[t] \in {"committed", "rolledback"}
    /\ BTree_finalize(Tree, t)
    /\ btStatus' = [btStatus EXCEPT ![t] = "finalized"]
    /\ UNCHANGED notBTree

\* commit, rollback or finalize called on a view of the tree
BTreeViewTransact(h, t) ==
    /\ h.kind = "View"
    /\ \/ BTree_commit(h, t)
       \/ BTree_rollback(h, t)
       \/ BTree_finalize(h, t)
    /\ UNCHANGED btStatus
    /\ UNCHANGED notBTree

----------------------------------------------------------------------------
(* Table views.  The table has the columns a and b, both in the key of its  *)
(* primary index; a row is the pair of its values.                          *)

\* the values of a column
MaxVal == 2

Vals == 1..MaxVal

Rows == Vals \X Vals

\* the schema of the primary index
Schema == <<"a", "b">>

\* the column lists given to select, group_by and order_by
ColumnLists == {<<>>, <<"a">>, <<"b">>, <<"a", "b">>, <<"b", "a">>, <<"a", "a">>}

\* TCResult::Err of an error of the kind code
Error(code) == [kind |-> "Err", code |-> code]

Ok(value) == [kind |-> "Ok", value |-> value]

\* enum ColumnBound { Is(Value), In(Range) }
ColumnBound_Is(v) == [kind |-> "Is", v |-> v]

ColumnBound_In(s, e) == [kind |-> "In", start |-> s, end |-> e]

\* the thread panics
Panic == [kind |-> "Panic"]

Bounds_into_btree_range(bounds, columns) ==
    LET len == Cardinality(DOMAIN bounds)
        missing == {i \in 1..len : columns[i] \notin DOMAIN bounds}
        start == [i \in 1..len |->
                    IF bounds[columns[i]].kind = "Is"
                    THEN Inclusive(bounds[columns[i]].v)
                    ELSE bounds[columns[i]].start]
        end == [i \in 1..len |->
                  IF bounds[columns[i]].kind = "Is"
                  THEN Inclusive(bounds[columns[i]].v)
                  ELSE bounds[columns[i]].end]
    IN  IF len > Len(columns) THEN Panic
        ELSE IF missing # {} THEN Error("NotFound")
        ELSE Ok([start |-> start, end |-> end])

NoView == [kind |-> "None"]

IsPrefix(p, q) == Len(p) <= Len(q) /\ \A i \in 1..Len(p) : p[i] = q[i]

RowLess(r, q) == r[1] < q[1] \/ (r[1] = q[1] /\ r[2] < q[2])

\* BTreeFile::slice over the whole range: the rows in the order of the index
RECURSIVE SortRows(_)
SortRows(S) ==
    IF S = {} THEN <<>>
    ELSE LET m == CHOOSE x \in S : \A y \in S : x = y \/ RowLess(x, y)
         IN  <<m>> \o SortRows(S \ {m})

\* bounds::all(): no column is bounded
Bounds_all == <<>>

\* BTreeRange::all()
BTreeRange_all == [start |-> <<>>, end |-> <<>>]

\* the row is in the range: each of its first components lies between the
\* bounds of the range for that component
RowInRange(range, row) ==
    \A i \in 1..Len(range.start) :
       RangeContains([start |-> range.start[i], end |-> range.end[i]], row[i])

\* the rows that the ranges are compared on
ProbeRows == (0..(MaxVal + 1)) \X (0..(MaxVal + 1))

\* BTreeRange::contains: every key of the inner range is in the outer range
BTreeRange_contains(outer, inner) ==
    \A row \in ProbeRows : RowInRange(inner, row) => RowInRange(outer, row)

\* struct IndexSlice {source, schema, bounds, range, reverse}
IndexSlice(bounds, range, reverse) ==
    [kind |-> "IndexSlice", bounds |-> bounds, range |-> range, reverse |-> reverse]

IndexSlice_all(reverse) == IndexSlice(Bounds_all, BTreeRange_all, reverse)

\* IndexSlice::new; the values of the bounds are of the columns' types
IndexSlice_new(bounds) ==
    LET range == Bounds_into_btree_range(bounds, Schema)
    IN  IF range.kind # "Ok" THEN range
        ELSE IndexSlice(bounds, range.value, FALSE)

\* IndexSlice::slice_index: the clone is given the bounds and keeps its range
IndexSlice_slice_index(v, bounds) ==
    LET outer == Bounds_into_btree_range(v.bounds, Schema)
        inner == Bounds_into_btree_range(bounds, Schema)
    IN  IF outer.kind # "Ok" THEN outer
        ELSE IF inner.kind # "Ok" THEN inner
        ELSE IF BTreeRange_contains(outer.value, inner.value)
             THEN [v EXCEPT !.bounds = bounds]
        ELSE Error("BadRequest")

\* IndexSlice::validate_bounds: outer.contains(&inner, ..).map(|_| ())
IndexSlice_validate_bounds(v, bounds) ==
    LET outer == Bounds_into_btree_range(v.bounds, Schema)
        inner == Bounds_into_btree_range(bounds, Schema)
    IN  IF outer.kind # "Ok" THEN outer
        ELSE IF inner.kind # "Ok" THEN inner
        ELSE Ok(<<>>)

\* IndexSlice::count: self.source.len(txn_id, self.range.into())
IndexSlice_count(v) == Cardinality({row \in tableRows : RowInRange(v.range, row)})

IndexSlice_into_reversed(v) == [v EXCEPT !.reverse = ~@]

IndexSlice_reversed(v) == IndexSlice_into_reversed(v)

IndexSlice_order_by(v, order, reverse) ==
    IF IsPrefix(order, Schema)
    THEN IF reverse THEN IndexSlice_reversed(v) ELSE v
    ELSE Error("BadRequest")

IndexSlice_validate_order(v, order) ==
    IF IsPrefix(order, Schema) THEN Ok(<<>>) ELSE Error("BadRequest")

\* self.source.slice(txn_id, self.range.into())
IndexSlice_stream(v) == SortRows({row \in tableRows : RowInRange(v.range, row)})

\* struct TableSlice {table, bounds, reversed}
TableSlice(bounds, reversed) ==
    [kind |-> "TableSlice", bounds |-> bounds, reversed |-> reversed]

\* TableBase::validate_bounds: an index supports the bounds
TableBase_validate_bounds(bounds) ==
    LET range == Bounds_into_btree_range(bounds, Schema)
    IN  IF range.kind # "Ok" THEN range ELSE Ok(<<>>)

\* TableSlice::new
TableSlice_new(bounds) ==
    LET valid == TableBase_validate_bounds(bounds)
    IN  IF valid.kind # "Ok" THEN valid ELSE TableSlice(bounds, FALSE)

TableSlice_reversed(v) == [v EXCEPT !.reversed = TRUE]

\* self.table.primary().slice(self.bounds)?.stream(txn_id)
TableSlice_stream(v) == IndexSlice_stream(IndexSlice_new(v.bounds))

\* TableSlice::count: the count of the supporting index's slice
TableSlice_count(v) == IndexSlice_count(IndexSlice_new(v.bounds))

\* TableBase::order_by: a slice of the index that supports the order
TableBase_order_by(order, reverse) ==
    IndexSlice_order_by(IndexSlice_all(FALSE), order, reverse)

\* struct ColumnSelection {source, schema, columns, indices}
ColumnSelection(source, columns, indices) ==
    [kind |-> "ColumnSelection", source |-> source, columns |-> columns,
     indices |-> indices]

\* struct Aggregate {source, columns}
Aggregate(source, columns) ==
    [kind |-> "Aggregate", source |-> source, columns |-> columns]

\* struct Limited {source, limit}
Limited(source, limit) == [kind |-> "Limited", source |-> source, limit |-> limit]

\* Limited::try_from; the limit fits a usize
Limited_try_from(source, limit) == Limited(source, limit)

\* struct Merged {left, right}; left is a TableSlice or a Merged
Merged(left, right) == [kind |-> "Merged", left |-> left, right |-> right]

Merged_new(left, right) == Merged(left, right)

\* the columns of a view: key() followed by values()
RECURSIVE Table_columns(_)
Table_columns(v) ==
    CASE v.kind = "ColumnSelection" -> v.columns
      [] v.kind = "Aggregate" -> Table_columns(v.source)
      [] v.kind = "Limited" -> Table_columns(v.source)
      [] v.kind = "Merged" -> Table_columns(v.left)
      [] OTHER -> Schema

\* ColumnSelection::try_from: the i-th listed column gets the index i
ColumnSelection_try_from(source, columns) ==
    IF Cardinality(SeqSet(columns)) # Len(columns) THEN Error("BadRequest")
    ELSE IF ~(SeqSet(columns) \subseteq SeqSet(Table_columns(source)))
         THEN Error("NotFound")
    ELSE ColumnSelection(source, columns, [i \in 1..Len(columns) |-> i])

\* row -> indices.iter().map(|i| row[*i])
ColumnSelection_stream(v, source) ==
    [n \in 1..Len(source) |-> [j \in 1..Len(v.indices) |-> source[n][v.indices[j]]]]

\* left.zip(right).filter_map(|(l, r)| if l == r { None } else { Some(r) }),
\* from the i-th pair on
RECURSIVE ZipFilter(_, _, _)
ZipFilter(left, right, i) ==
    IF i > Len(left) \/ i > Len(right) THEN <<>>
    ELSE (IF left[i] = right[i] THEN <<>> ELSE <<right[i]>>)
            \o ZipFilter(left, right, i + 1)

\* Aggregate::stream: left is the first row followed by the source, right
\* is the source; of each zipped pair (l, r) with l # r it yields r
Aggregate_stream(source) ==
    IF source = <<>> THEN <<>>
    ELSE LET left  == <<source[1]>> \o source
             right == source
         IN  ZipFilter(left, right, 1)

\* a variant of take that yields the whole stream
Stream_take_all(rows, n) == rows

\* rows.take(n)
Stream_take(rows, n) == SubSeq(rows, 1, IF n < Len(rows) THEN n ELSE Len(rows))

\* Limited::stream
Limited_stream(v, source) == Stream_take(source, v.limit)

\* stream.flatten()
RECURSIVE Flatten(_)
Flatten(streams) ==
    IF streams = <<>> THEN <<>> ELSE Head(streams) \o Flatten(Tail(streams))

\* Bounds::from_key
Bounds_from_key(key, key_columns) ==
    [name \in SeqSet(key_columns) |->
       ColumnBound_Is(key[CHOOSE i \in 1..Len(key_columns) : key_columns[i] = name])]

\* TableSlice::validate_bounds: index.validate_slice_bounds(self.bounds, bounds)
TableSlice_validate_bounds(v, bounds) ==
    LET outer == Bounds_into_btree_range(v.bounds, Schema)
        inner == Bounds_into_btree_range(bounds, Schema)
    IN  IF outer.kind # "Ok" THEN outer
        ELSE IF inner.kind # "Ok" THEN inner
        ELSE IF BTreeRange_contains(outer.value, inner.value) THEN Ok(<<>>)
        ELSE Error("BadRequest")

\* TableBase::slice: the slice of the table with the bounds
TableBase_slice(bounds) == TableSlice_new(bounds)

\* TableSlice::slice
TableSlice_slice(v, bounds) ==
    LET valid == TableSlice_validate_bounds(v, bounds)
    IN  IF valid.kind # "Ok" THEN valid ELSE TableBase_slice(bounds)

\* Merged::slice and MergeSource::slice
RECURSIVE Merged_slice(_, _)
Merged_slice(v, bounds) ==
    IF v.left.kind = "Merged" THEN Merged_slice(v.left, bounds)
    ELSE TableSlice_slice(v.left, bounds)

MergeSource_slice(left, bounds) ==
    IF left.kind = "Merged" THEN Merged_slice(left, bounds)
    ELSE TableSlice_slice(left, bounds)

RECURSIVE Table_stream(_)

\* Merged::stream: each key of the right slice gives the bounds of a slice
\* of the left source; slice.unwrap() panics when the left source rejects them
Merged_stream(v) ==
    LET keys == IndexSlice_stream(v.right)
        slices == [i \in 1..Len(keys) |->
                     MergeSource_slice(v.left, Bounds_from_key(keys[i], Schema))]
    IN  IF \E i \in 1..Len(keys) : slices[i].kind = "Err" THEN Panic
        ELSE Flatten([i \in 1..Len(keys) |-> Table_stream(slices[i])])

\* the stream of the merged view ends in a panic
Merged_stream_panics(v) ==
    LET keys == IndexSlice_stream(v.right)
    IN  \E i \in 1..Len(keys) :
           MergeSource_slice(v.left, Bounds_from_key(keys[i], Schema)).kind = "Err"

Table_stream(v) ==
    CASE v.kind = "IndexSlice" -> IndexSlice_stream(v)
      [] v.kind = "TableSlice" -> TableSlice_stream(v)
      [] v.kind = "ColumnSelection" ->
            ColumnSelection_stream(v, Table_stream(v.source))
      [] v.kind = "Aggregate" -> Aggregate_stream(Table_stream(v.source))
      [] v.kind = "Limited" -> Limited_stream(v, Table_stream(v.source))
      [] v.kind = "Merged" -> Merged_stream(v)

\* Limited::count
Limited_count(v, source_count) == IF source_count < v.limit THEN source_count ELSE v.limit

\* count of a slice, a selection or a limited view
RECURSIVE Table_count(_)
Table_count(v) ==
    CASE v.kind = "IndexSlice" -> IndexSlice_count(v)
      [] v.kind = "TableSlice" -> TableSlice_count(v)
      [] v.kind = "ColumnSelection" -> Table_count(v.source)
      [] v.kind = "Limited" -> Limited_count(v, Table_count(v.source))

\* Aggregate::validate_bounds
Aggregate_validate_bounds(v, bounds) == Error("Unsupported")

RECURSIVE Table_validate_bounds(_, _)

\* ColumnSelection::validate_bounds: selected.difference(&bounds_columns)
ColumnSelection_validate_bounds(v, bounds) ==
    IF SeqSet(v.columns) \ DOMAIN bounds # {} THEN Error("BadRequest")
    ELSE Table_validate_bounds(v.source, bounds)

Table_validate_bounds(v, bounds) ==
    CASE v.kind = "IndexSlice" -> IndexSlice_validate_bounds(v, bounds)
      [] v.kind = "TableSlice" -> TableSlice_validate_bounds(v, bounds)
      [] v.kind = "ColumnSelection" -> ColumnSelection_validate_bounds(v, bounds)
      [] v.kind = "Aggregate" -> Aggregate_validate_bounds(v, bounds)
      [] v.kind = "Limited" -> Table_validate_bounds(v.source, bounds)
      [] v.kind = "Merged" -> Table_validate_bounds(v.left, bounds)

\* Limited::order_by
Limited_order_by(v, order, reverse) == Error("Unsupported")

\* Limited::reversed
Limited_reversed(v) == Error("Unsupported")

RECURSIVE Table_validate_order(_, _)

\* a variant of Limited::validate_order that asks the source
Limited_validate_order_source(v, order) == Table_validate_order(v.source, order)

\* Limited::validate_order
Limited_validate_order(v, order) == Error("Unsupported")

\* ColumnSelection::validate_order: selected.difference(&order_columns)
ColumnSelection_validate_order(v, order) ==
    IF SeqSet(v.columns) \ SeqSet(order) # {} THEN Error("BadRequest")
    ELSE Table_validate_order(v.source, order)

Table_validate_order(v, order) ==
    CASE v.kind = "IndexSlice" -> IndexSlice_validate_order(v, order)
      [] v.kind = "TableSlice" -> IndexSlice_validate_order(IndexSlice_all(FALSE), order)
      [] v.kind = "ColumnSelection" -> ColumnSelection_validate_order(v, order)
      [] v.kind = "Aggregate" -> Table_validate_order(v.source, order)
      [] v.kind = "Limited" -> Limited_validate_order(v, order)
      [] v.kind = "Merged" -> Table_validate_order(v.left, order)

RECURSIVE Table_order_by(_, _, _)
Table_order_by(v, order, reverse) ==
    CASE v.kind = "IndexSlice" -> IndexSlice_order_by(v, order, reverse)
      [] v.kind = "TableSlice" -> TableBase_order_by(order, reverse)
      [] v.kind = "ColumnSelection" ->
            IF Table_validate_order(v, order).kind = "Err"
            THEN Table_validate_order(v, order)
            ELSE LET source == Table_order_by(v.source, order, reverse)
                 IN  IF source.kind = "Err" THEN source
                     ELSE ColumnSelection(source, v.columns, v.indices)
      [] v.kind = "Aggregate" ->
            LET source == Table_order_by(v.source, order, reverse)
            IN  IF source.kind = "Err" THEN source ELSE Aggregate(source, v.columns)
      [] v.kind = "Limited" -> Limited_order_by(v, order, reverse)
      [] v.kind = "Merged" -> Table_order_by(v.left, order, reverse)

RECURSIVE Table_reversed(_)
Table_reversed(v) ==
    CASE v.kind = "IndexSlice" -> IndexSlice_reversed(v)
      [] v.kind = "TableSlice" -> TableSlice_reversed(v)
      [] v.kind = "ColumnSelection" ->
            LET source == Table_reversed(v.source)
            IN  IF source.kind = "Err" THEN source
                ELSE ColumnSelection_try_from(source, v.columns)
      [] v.kind = "Aggregate" ->
            LET source == Table_reversed(v.source)
            IN  IF source.kind = "Err" THEN source ELSE Aggregate(source, v.columns)
      [] v.kind = "Limited" -> Limited_reversed(v)
      [] v.kind = "Merged" ->
            Merged(IF v.left.kind = "Merged" THEN Table_reversed(v.left)
                   ELSE [v.left EXCEPT !.reversed = ~@],
                   IndexSlice_into_reversed(v.right))

\* Aggregate::new
Aggregate_new(source, columns) ==
    LET ordered == Table_order_by(source, columns, FALSE)
    IN  IF ordered.kind = "Err" THEN ordered ELSE Aggregate(ordered, columns)

\* a variant of Aggregate::group_by that aggregates the source again
Aggregate_group_by_source(v, columns) == Aggregate_new(v.source, columns)

\* Aggregate::group_by
Aggregate_group_by(v, columns) == Error("Unsupported")

\* Selection::group_by
Table_group_by(v, columns) ==
    IF v.kind = "Aggregate" THEN Aggregate_group_by(v, columns)
    ELSE Aggregate_new(v, columns)

InitView ==
    /\ tableRows \in SUBSET Rows
    /\ view = NoView
    /\ viewOut = <<>>
    /\ streamed = FALSE
    /\ viewCount = {}

IdleView ==
    /\ tableRows = {}
    /\ view = NoView
    /\ viewOut = <<>>
    /\ streamed = FALSE
    /\ viewCount = {}

\* a view of the table is taken: a slice of its primary index or of the table
TableIndexSlice(reverse) ==
    /\ view = NoView
    /\ view' = IndexSlice_all(reverse)
    /\ UNCHANGED <<tableRows, viewOut, streamed, viewCount>>
    /\ UNCHANGED notView

TableSliceNew ==
    /\ view = NoView
    /\ view' = TableSlice_new(Bounds_all)
    /\ UNCHANGED <<tableRows, viewOut, streamed, viewCount>>
    /\ UNCHANGED notView

\* view.select(columns), of a slice
ViewSelect(columns) ==
    /\ ~streamed
    /\ view.kind \in {"IndexSlice", "TableSlice"}
    /\ ColumnSelection_try_from(view, columns).kind # "Err"
    /\ view' = ColumnSelection_try_from(view, columns)
    /\ UNCHANGED <<tableRows, viewOut, streamed, viewCount>>
    /\ UNCHANGED notView

\* view.group_by(columns), of a slice or a selection
ViewGroupBy(columns) ==
    /\ ~streamed
    /\ view.kind \in {"IndexSlice", "TableSlice", "ColumnSelection"}
    /\ Aggregate_new(view, columns).kind # "Err"
    /\ view' = Aggregate_new(view, columns)
    /\ UNCHANGED <<tableRows, viewOut, streamed, viewCount>>
    /\ UNCHANGED notView

\* view.order_by(columns, reverse), of a slice
ViewOrderBy(columns, reverse) ==
    /\ ~streamed
    /\ view.kind \in {"IndexSlice", "TableSlice"}
    /\ Table_order_by(view, columns, reverse).kind # "Err"
    /\ view' = Table_order_by(view, columns, reverse)
    /\ UNCHANGED <<tableRows, viewOut, streamed, viewCount>>
    /\ UNCHANGED notView

\* view.reversed(), of a slice
ViewReversed ==
    /\ ~streamed
    /\ view.kind \in {"IndexSlice", "TableSlice"}
    /\ view' = Table_reversed(view)
    /\ UNCHANGED <<tableRows, viewOut, streamed, viewCount>>
    /\ UNCHANGED notView

\* view.stream(txn_id), read to its end
ViewStream ==
    /\ ~streamed
    /\ view # NoView
    /\ viewOut' = Table_stream(view)
    /\ streamed' = TRUE
    /\ UNCHANGED <<tableRows, view, viewCount>>
    /\ UNCHANGED notView

\* ---- slices, limits and merges of views

\* the largest limit
MaxLimit == 2

\* the bounds of one column
ViewColumnBounds ==
    {ColumnBound_Is(v) : v \in Vals} \cup {ColumnBound_In(Inclusive(MaxVal), Unbounded)}

\* the bounds given to slices
ViewBounds == UNION {[names -> ViewColumnBounds] : names \in SUBSET SeqSet(Schema)}

\* IndexSlice::new, by the slice of an index
ViewIndexSliceNew(bounds) ==
    /\ view = NoView
    /\ IndexSlice_new(bounds).kind = "IndexSlice"
    /\ view' = IndexSlice_new(bounds)
    /\ UNCHANGED <<tableRows, viewOut, streamed, viewCount>>
    /\ UNCHANGED notView

\* TableSlice::new, by the slice of the table
ViewTableSlice(bounds) ==
    /\ view = NoView
    /\ TableSlice_new(bounds).kind = "TableSlice"
    /\ view' = TableSlice_new(bounds)
    /\ UNCHANGED <<tableRows, viewOut, streamed, viewCount>>
    /\ UNCHANGED notView

\* slice.slice_index(bounds), of an index slice
ViewSliceIndex(bounds) ==
    /\ ~streamed
    /\ viewCount = {}
    /\ view.kind = "IndexSlice"
    /\ IndexSlice_slice_index(view, bounds).kind = "IndexSlice"
    /\ view' = IndexSlice_slice_index(view, bounds)
    /\ UNCHANGED <<tableRows, viewOut, streamed, viewCount>>
    /\ UNCHANGED notView

\* view.limit(n), of a slice or a selection
ViewLimit(n) ==
    /\ ~streamed
    /\ viewCount = {}
    /\ view.kind \in {"IndexSlice", "TableSlice", "ColumnSelection"}
    /\ view' = Limited_try_from(view, n)
    /\ UNCHANGED <<tableRows, viewOut, streamed, viewCount>>
    /\ UNCHANGED notView

\* Merged::new(left, right), of a table slice and an index slice
ViewMerge(bounds) ==
    /\ ~streamed
    /\ view.kind = "TableSlice"
    /\ IndexSlice_new(bounds).kind = "IndexSlice"
    /\ view' = Merged_new(view, IndexSlice_new(bounds))
    /\ UNCHANGED <<tableRows, viewOut, streamed, viewCount>>
    /\ UNCHANGED notView

\* merged.slice(bounds)
ViewSlice(bounds) ==
    /\ ~streamed
    /\ view.kind = "Merged"
    /\ Merged_slice(view, bounds).kind # "Err"
    /\ view' = Merged_slice(view, bounds)
    /\ UNCHANGED <<tableRows, viewOut, streamed, viewCount>>
    /\ UNCHANGED notView

\* view.count(txn_id)
ViewCount ==
    /\ viewCount = {}
    /\ view.kind \in {"IndexSlice", "TableSlice", "ColumnSelection", "Limited"}
    /\ viewCount' = {Table_count(view)}
    /\ UNCHANGED <<tableRows, view, viewOut, streamed>>
    /\ UNCHANGED notView

----------------------------------------------------------------------------
(* delete and update of a view: the view's stream is mapped to one          *)
(* delete_row or update_row future per row,                                 *)
(*     stream.map(values_into_row).map_ok(|row| delete_row(row))            *)
(*           .try_buffer_unordered(2).try_fold((), ..)                      *)
(* The rows of the stream are numbered 1..wbLen in stream order.            *)

\* the rows a view's stream yields
MaxRows == 3

\* try_buffer_unordered(2)
BufferSize == 2

RowIds == 1..MaxRows

\* how each operation folds the results of its row futures
Limited_delete == "try_fold"

Limited_update == "try_fold"

Merged_delete == "try_fold"

Merged_update == "try_fold"

TableSlice_delete == "fold"

TableSlice_update == "try_fold"

WbViews == {"Limited", "Merged", "TableSlice"}

WbOps == {"delete", "update"}

Combinator(v, op) ==
    CASE v = "Limited"    /\ op = "delete" -> Limited_delete
      [] v = "Limited"    /\ op = "update" -> Limited_update
      [] v = "Merged"     /\ op = "delete" -> Merged_delete
      [] v = "Merged"     /\ op = "update" -> Merged_update
      [] v = "TableSlice" /\ op = "delete" -> TableSlice_delete
      [] v = "TableSlice" /\ op = "update" -> TableSlice_update

NoRows == [r \in RowIds |-> 0]

IdleWriteback ==
    /\ wbView = "none"
    /\ wbOp = "none"
    /\ wbLen = 0
    /\ wbPos = 0
    /\ wbStreamDone = FALSE
    /\ wbInFlight = {}
    /\ wbApplied = NoRows
    /\ wbFailed = {}
    /\ wbAcc = "Ok"
    /\ wbRet = "none"
    /\ wbPc = "idle"

InitWriteback == IdleWriteback

\* view.delete(txn_id) or view.update(txn, value) is called on a view whose
\* stream holds n rows
WritebackStart(v, op, n) ==
    /\ wbPc = "idle"
    /\ wbView' = v
    /\ wbOp' = op
    /\ wbLen' = n
    /\ wbPc' = "running"
    /\ UNCHANGED <<wbPos, wbStreamDone, wbInFlight, wbApplied, wbFailed, wbAcc, wbRet>>
    /\ UNCHANGED notWriteback

\* try_buffer_unordered takes the next row of the stream while fewer than
\* BufferSize futures are in progress, and starts its future
WritebackPull ==
    /\ wbPc = "running"
    /\ ~wbStreamDone
    /\ Cardinality(wbInFlight) < BufferSize
    /\ wbPos < wbLen
    /\ wbPos' = wbPos + 1
    /\ wbInFlight' = wbInFlight \cup {wbPos + 1}
    /\ UNCHANGED <<wbView, wbOp, wbLen, wbStreamDone, wbApplied, wbFailed, wbAcc, wbRet, wbPc>>
    /\ UNCHANGED notWriteback

\* the stream is found to have ended
WritebackStreamEnd ==
    /\ wbPc = "running"
    /\ ~wbStreamDone
    /\ Cardinality(wbInFlight) < BufferSize
    /\ wbPos = wbLen
    /\ wbStreamDone' = TRUE
    /\ UNCHANGED <<wbView, wbOp, wbLen, wbPos, wbInFlight, wbApplied, wbFailed, wbAcc, wbRet, wbPc>>
    /\ UNCHANGED notWriteback

\* a row future in progress completes, in any order, with Ok (the row is
\* deleted or updated) or Err; fold takes the result as its accumulator and
\* goes on, try_fold ends at the first Err and drops the futures in progress
WritebackComplete(r, ok) ==
    /\ wbPc = "running"
    /\ r \in wbInFlight
    /\ wbApplied' = IF ok THEN [wbApplied EXCEPT ![r] = @ + 1] ELSE wbApplied
    /\ wbFailed' = IF ok THEN wbFailed ELSE wbFailed \cup {r}
    /\ IF Combinator(wbView, wbOp) = "fold"
       THEN /\ wbAcc' = IF ok THEN "Ok" ELSE "Err"
            /\ wbInFlight' = wbInFlight \ {r}
            /\ UNCHANGED <<wbRet, wbPc>>
       ELSE IF ok
            THEN /\ wbInFlight' = wbInFlight \ {r}
                 /\ UNCHANGED <<wbAcc, wbRet, wbPc>>
            ELSE /\ wbInFlight' = {}
                 /\ wbAcc' = "Err"
                 /\ wbRet' = "Err"
                 /\ wbPc' = "done"
    /\ UNCHANGED <<wbView, wbOp, wbLen, wbPos, wbStreamDone>>
    /\ UNCHANGED notWriteback

\* the buffered stream has ended: the operation returns the accumulator
WritebackReturn ==
    /\ wbPc = "running"
    /\ wbStreamDone
    /\ wbInFlight = {}
    /\ wbRet' = wbAcc
    /\ wbPc' = "done"
    /\ UNCHANGED <<wbView, wbOp, wbLen, wbPos, wbStreamDone, wbInFlight, wbApplied, wbFailed, wbAcc>>
    /\ UNCHANGED notWriteback

----------------------------------------------------------------------------
(* Values, columns and the validation of B-tree keys.  A value is an       *)
(* integer or a string; v is the integer, or the length of the string.     *)

\* the longest string value
MaxStrLen == 2
\* the most components of a key
MaxArity == 2

\* the serialized size of an integer value
IntSize == 2

DTypes == {"int", "str"}

IntValue(n) == [dtype |-> "int", v |-> n]

StrValue(n) == [dtype |-> "str", v |-> n]

Column(name, dtype, max_len) == [name |-> name, dtype |-> dtype, max_len |-> max_len]

\* ValueType::try_cast: a value of the dtype is kept, an integer is cast to
\* the string of its digits, a string is not cast to an integer
ValueType_try_cast(dtype, value) ==
    IF value.dtype = dtype THEN Ok(value)
    ELSE IF dtype = "str" THEN Ok(StrValue(IF value.v < 10 THEN 1 ELSE 2))
    ELSE Error("BadRequest")

\* bincode::serialized_size
serialized_size(value) == IF value.dtype = "int" THEN IntSize ELSE value.v

\* a variant that checks the size of the value before it is cast
validate_column_uncast(value, column) ==
    LET cast == ValueType_try_cast(column.dtype, value)
    IN  IF cast.kind = "Err" THEN cast
        ELSE IF \E size \in column.max_len : serialized_size(value) > size
             THEN Error("BadRequest")
        ELSE cast

\* the closure of validate_prefix, applied to one value and its column
validate_column(value, column) ==
    LET cast == ValueType_try_cast(column.dtype, value)
    IN  IF cast.kind = "Err" THEN cast
        ELSE IF \E size \in column.max_len : serialized_size(cast.value) > size
             THEN Error("BadRequest")
        ELSE cast

validate_prefix(prefix, schema) ==
    IF Len(prefix) > Len(schema) THEN Error("BadRequest")
    ELSE LET checked == [i \in 1..Len(prefix) |-> validate_column(prefix[i], schema[i])]
             failed == {i \in 1..Len(prefix) : checked[i].kind = "Err"}
         IN  IF failed = {}
             THEN Ok([i \in 1..Len(prefix) |-> checked[i].value])
             ELSE checked[CHOOSE i \in failed : \A j \in failed : i <= j]

validate_key(key, schema) ==
    IF Len(key) # Len(schema) THEN Error("BadRequest")
    ELSE validate_prefix(key, schema)

----------------------------------------------------------------------------
(* Requests to a B-tree: CollectionInstance::get, put and post.  The tree  *)
(* has one integer column without a maximum length.                        *)

BTree_schema == <<Column("k", "int", {})>>

\* the transaction of the requests
RouteTxn == CHOOSE t \in Txns : TRUE

\* the trees and views that receive requests
RouteTrees ==
    {Tree} \cup {View([start |-> Inclusive(v), end |-> Unbounded], FALSE) : v \in Keys}
           \cup {View(RangeDefault, TRUE)}

RoutePaths ==
    {<<>>, <<"count">>, <<"reverse">>, <<"delete">>, <<"keys">>, <<"count", "reverse">>}

\* the ranges of the requests, all valid for the schema
RouteRanges == DeleteRanges

\* the value of a PUT: a key, a list of keys, or something else
PutKey(key) == [kind |-> "Key", key |-> key]

PutKeys(keys) == [kind |-> "Keys", keys |-> keys]

PutOther == [kind |-> "Other"]

PutValues ==
    {PutKey(<<IntValue(k)>>) : k \in Keys}
      \cup {PutKey(<<>>), PutKey(<<IntValue(1), IntValue(1)>>), PutKey(<<StrValue(1)>>)}
      \cup {PutKeys(<<<<IntValue(1)>>, <<IntValue(NumKeys)>>>>), PutOther}

NoReq == [method |-> "none"]

NoResp == [kind |-> "none"]

\* what a request returns
StateCollection(h) == [kind |-> "Collection", btree |-> h]

StateSlice(h, range, reverse) ==
    [kind |-> "Slice", source |-> h, range |-> range, reverse |-> reverse]

StateKey(k) == [kind |-> "Key", key |-> k]

StateNumber(n) == [kind |-> "Number", n |-> n]

StateUnit == [kind |-> "Unit"]

\* a variant of BTreeRange::is_key that holds of no range
BTreeRange_is_key_never(range, schema) == FALSE

\* BTreeRange::is_key: both bounds are inclusive, of the same full key
BTreeRange_is_key(range, schema) ==
    /\ range.start.kind = "In"
    /\ range.end.kind = "In"
    /\ range.start.v = range.end.v

route(h, t, path, range) ==
    IF path = <<>>
    THEN IF range = RangeDefault THEN StateCollection(h)
         ELSE IF BTreeRange_is_key(range, BTree_schema)
              THEN LET rows == BTree_stream(h, t, range, FALSE)
                   IN  IF rows = <<>> THEN Error("NotFound") ELSE StateKey(rows[1])
         ELSE StateSlice(h, range, FALSE)
    ELSE IF Len(path) = 1
    THEN CASE path[1] = "count" -> StateNumber(BTree_len(h, t, range))
           [] path[1] = "reverse" -> StateSlice(h, range, TRUE)
           [] OTHER -> Error("NotFound")
    ELSE Error("NotFound")

\* BTreeFile::insert_from
File_insert_from(t, keys) ==
    LET K == {keys[i][1].v : i \in 1..Len(keys)}
    IN  /\ btPending' = [btPending EXCEPT ![t] =
                           [adds |-> @.adds \cup K, dels |-> @.dels \ K]]
        /\ UNCHANGED btCommitted

\* a view takes the keys of its range
BTree_accepts(h, k) == h.kind = "Tree" \/ RangeContains(h.range, k)

Request(method, h, t, path, range, value) ==
    [method |-> method, h |-> h, t |-> t, path |-> path, range |-> range,
     value |-> value]

InitRoute ==
    /\ rtReq = NoReq
    /\ rtResp = NoResp

IdleRoute == InitRoute

\* impl CollectionInstance for BTree: get
BTreeGet(h, t, path, range) ==
    /\ rtReq = NoReq
    /\ rtReq' = Request("GET", h, t, path, range, PutOther)
    /\ rtResp' = route(h, t, path, range)
    /\ UNCHANGED btreeVars
    /\ UNCHANGED notRoute

\* impl CollectionInstance for BTree: post
BTreePost(h, t, path, range) ==
    /\ rtReq = NoReq
    /\ rtReq' = Request("POST", h, t, path, range, PutOther)
    /\ IF Len(path) = 1 /\ path[1] = "delete"
       THEN /\ BTree_delete(h, t, range)
            /\ rtResp' = StateUnit
       ELSE /\ rtResp' = route(h, t, path, range)
            /\ UNCHANGED <<btCommitted, btPending>>
    /\ UNCHANGED btStatus
    /\ UNCHANGED notRoute

\* impl CollectionInstance for BTree: put
BTreePut(h, t, path, range, value) ==
    /\ rtReq = NoReq
    /\ rtReq' = Request("PUT", h, t, path, range, value)
    /\ IF Len(path) = 1 /\ path[1] = "delete"
       THEN /\ BTree_delete(h, t, range)
            /\ rtResp' = StateUnit
       ELSE IF path # <<>>
       THEN /\ rtResp' = Error("NotFound")
            /\ UNCHANGED <<btCommitted, btPending>>
       ELSE IF range = RangeDefault
       THEN CASE value.kind = "Keys" ->
                   /\ File_insert_from(t, value.keys)
                   /\ rtResp' = StateUnit
              [] value.kind = "Key" ->
                   LET key == validate_key(value.key, BTree_schema)
                   IN  IF key.kind = "Ok" /\ BTree_accepts(h, key.value[1].v)
                       THEN /\ BTree_insert(h, t, key.value[1].v)
                            /\ rtResp' = StateUnit
                       ELSE /\ rtResp' = Error("BadRequest")
                            /\ UNCHANGED <<btCommitted, btPending>>
              [] OTHER ->
                   /\ rtResp' = Error("BadRequest")
                   /\ UNCHANGED <<btCommitted, btPending>>
       ELSE /\ rtResp' = Error("NotImplemented")
            /\ UNCHANGED <<btCommitted, btPending>>
    /\ UNCHANGED btStatus
    /\ UNCHANGED notRoute

\* the response is sent
BTreeRespond ==
    /\ rtReq # NoReq
    /\ rtReq' = NoReq
    /\ rtResp' = NoResp
    /\ UNCHANGED btreeVars
    /\ UNCHANGED notRoute

----------------------------------------------------------------------------
(* Functions applied to arguments: a call records the function, its        *)
(* arguments and what it returned.                                         *)

NoCall == [fn |-> "none"]

\* the block store before a call: no directory looked up or created, no
\* chain loaded
Store_untouched ==
    [looked_up |-> FALSE, created_path |-> FALSE, created |-> {}, loaded |-> {}]

InitFn ==
    /\ fnCall = NoCall
    /\ fnResult = NoResp
    /\ fnStore = Store_untouched

IdleFn == InitFn

\* the function has returned to its caller
FnReturn ==
    /\ fnCall # NoCall
    /\ fnCall' = NoCall
    /\ fnResult' = NoResp
    /\ fnStore' = Store_untouched
    /\ UNCHANGED notFnStore

\* the values of a key: an integer, and strings of several lengths
KeyValues ==
    {IntValue(1), StrValue(1), StrValue(MaxStrLen), StrValue(MaxStrLen + 1)}

\* the columns of a schema: max_len is the empty set for None
KeyColumns ==
    {Column("c", dtype, max_len) : dtype \in DTypes, max_len \in {{}, {1}, {MaxStrLen}}}

SeqsUpTo(S, n) == UNION {[1..m -> S] : m \in 0..n}

ValidateKey(key, schema) ==
    /\ fnCall = NoCall
    /\ fnCall' = [fn |-> "validate_key", key |-> key, schema |-> schema]
    /\ fnResult' = validate_key(key, schema)
    /\ UNCHANGED notFn

ValidatePrefix(prefix, schema) ==
    /\ fnCall = NoCall
    /\ fnCall' = [fn |-> "validate_prefix", key |-> prefix, schema |-> schema]
    /\ fnResult' = validate_prefix(prefix, schema)
    /\ UNCHANGED notFn

\* ---- table bounds

\* the column names of a table
ColumnNames == {"a", "b", "c"}

ColumnBounds ==
    {ColumnBound_Is(1), ColumnBound_In(Inclusive(1), Exclusive(2)),
     ColumnBound_In(Unbounded, Inclusive(2))}

\* struct Bounds: a map from column name to ColumnBound
TableBounds == UNION {[names -> ColumnBounds] : names \in SUBSET ColumnNames}

\* the key columns of an index: distinct names in order
IndexColumns ==
    {columns \in SeqsUpTo(ColumnNames, MaxArity) :
       \A i, j \in 1..Len(columns) : i # j => columns[i] # columns[j]}

IntoBTreeRange(bounds, columns) ==
    /\ fnCall = NoCall
    /\ fnCall' = [fn |-> "into_btree_range", bounds |-> bounds, columns |-> columns]
    /\ fnResult' = Bounds_into_btree_range(bounds, columns)
    /\ UNCHANGED notFn

\* ---- order_by of an index slice

IndexSliceOrderBy(v, order, reverse) ==
    /\ fnCall = NoCall
    /\ fnCall' = [fn |-> "order_by", slice |-> v, order |-> order, reverse |-> reverse]
    /\ fnResult' = IndexSlice_order_by(v, order, reverse)
    /\ UNCHANGED notFn

\* ---- the operations of views that return a view or an error

\* the views the operations are applied to
FnSlices ==
    {IndexSlice_all(reverse) : reverse \in BOOLEAN}
      \cup {v \in {IndexSlice_new(bounds) : bounds \in ViewBounds} : v.kind = "IndexSlice"}
      \cup {v \in {TableSlice_new(bounds) : bounds \in ViewBounds} : v.kind = "TableSlice"}

FnSelections ==
    {v \in {ColumnSelection_try_from(source, columns) :
               source \in {IndexSlice_all(FALSE), TableSlice_new(Bounds_all)},
               columns \in ColumnLists} : v.kind = "ColumnSelection"}

FnSources == FnSlices \cup FnSelections

FnLimited == {Limited_try_from(source, n) : source \in FnSources, n \in 0..MaxLimit}

\* selections of limited views
FnWrapped ==
    {v \in {ColumnSelection_try_from(Limited_try_from(source, MaxLimit), columns) :
               source \in {IndexSlice_all(FALSE), TableSlice_new(Bounds_all)},
               columns \in ColumnLists} : v.kind = "ColumnSelection"}

FnAggregates ==
    {v \in {Aggregate_new(source, columns) :
               source \in FnSources, columns \in ColumnLists} : v.kind = "Aggregate"}

FnViews == FnSources \cup FnLimited \cup FnWrapped \cup FnAggregates

TableGroupBy(v, columns) ==
    /\ fnCall = NoCall
    /\ fnCall' = [fn |-> "group_by", view |-> v, columns |-> columns]
    /\ fnResult' = Table_group_by(v, columns)
    /\ UNCHANGED notFn

TableValidateBounds(v, bounds) ==
    /\ fnCall = NoCall
    /\ fnCall' = [fn |-> "validate_bounds", view |-> v, bounds |-> bounds]
    /\ fnResult' = Table_validate_bounds(v, bounds)
    /\ UNCHANGED notFn

TableValidateOrder(v, order) ==
    /\ fnCall = NoCall
    /\ fnCall' = [fn |-> "validate_order", view |-> v, order |-> order]
    /\ fnResult' = Table_validate_order(v, order)
    /\ UNCHANGED notFn

TableOrderBy(v, order, reverse) ==
    /\ fnCall = NoCall
    /\ fnCall' = [fn |-> "table_order_by", view |-> v, order |-> order,
                  reverse |-> reverse]
    /\ fnResult' = Table_order_by(v, order, reverse)
    /\ UNCHANGED notFn

TableReversed(v) ==
    /\ fnCall = NoCall
    /\ fnCall' = [fn |-> "reversed", view |-> v]
    /\ fnResult' = Table_reversed(v)
    /\ UNCHANGED notFn

IndexSliceSliceIndex(v, bounds) ==
    /\ fnCall = NoCall
    /\ fnCall' = [fn |-> "slice_index", view |-> v, bounds |-> bounds]
    /\ fnResult' = IndexSlice_slice_index(v, bounds)
    /\ UNCHANGED notFn

\* ---- Cluster::instantiate

\* the most members of a class proto
MaxMembers == 3

\* a member of the proto: a Get reference whose path names a chain type or
\* not and whose schema is a chain schema or not, another reference, an
\* operation definition, or any other scalar
GetRef(chain, schema_ok) == [kind |-> "Get", chain |-> chain, schema_ok |-> schema_ok]

OtherRef == [kind |-> "Ref", chain |-> FALSE, schema_ok |-> FALSE]

OpDef == [kind |-> "Op", chain |-> FALSE, schema_ok |-> FALSE]

OtherScalar == [kind |-> "Value", chain |-> FALSE, schema_ok |-> FALSE]

Members ==
    {GetRef(TRUE, TRUE), GetRef(TRUE, FALSE), GetRef(FALSE, TRUE), OtherRef, OpDef,
     OtherScalar}

\* InstanceClass: the path, if any, and the proto, the members by id
InstanceClasses == [path : {"None", "Some"}, proto : SeqsUpTo(Members, MaxMembers)]

\* what data_dir.find returns for the path of the cluster
DirEntries == {"None", "Dir", "File"}

\* a variant of the loop over the members that looks at the first only
RejectedMembers_first(proto) ==
    {id \in DOMAIN proto : id = 1 /\ proto[id].kind # "Op"
                             /\ ~(proto[id].kind = "Get" /\ proto[id].chain)}

\* the members at which the loop over the proto returns an error
RejectedMembers(proto) ==
    {id \in DOMAIN proto : proto[id].kind # "Op"
                             /\ ~(proto[id].kind = "Get" /\ proto[id].chain)}

Cluster_instantiate(class, entry) ==
    LET proto == class.proto
        chain_schema == {id \in DOMAIN proto : proto[id].kind = "Get" /\ proto[id].chain}
        cluster_proto == {id \in DOMAIN proto : proto[id].kind = "Op"}
    IN  IF class.path = "None" THEN Error("Unsupported")
        ELSE IF RejectedMembers(proto) # {} THEN Error("BadRequest")
        ELSE IF entry = "File" THEN Error("BadRequest")
        ELSE IF \E id \in chain_schema : ~proto[id].schema_ok THEN Error("BadRequest")
        ELSE Ok([chains |-> chain_schema, proto |-> cluster_proto])

\* a variant that looks up the directory of the cluster before the loop over
\* the members
Cluster_instantiate_lookup_first(class) == class.path = "Some"

\* data_dir.find is reached: the path is given and the loop over the members
\* has returned no error
Cluster_instantiate_lookup(class) ==
    class.path = "Some" /\ RejectedMembers(class.proto) = {}

\* what instantiate may have done to the block store when it returns: the
\* lookup of the path of the cluster, the creation of its directory, and for
\* the chains, in the order of the HashMap chain_schema, the creation of the
\* subdirectory and the load of the chain, up to the first chain whose
\* schema is not a chain schema
Cluster_instantiate_store(class, entry) ==
    LET proto == class.proto
        chain_schema == {id \in DOMAIN proto : proto[id].kind = "Get" /\ proto[id].chain}
        invalid == {id \in chain_schema : ~proto[id].schema_ok}
        found == [Store_untouched EXCEPT !.looked_up = TRUE]
        dir == [found EXCEPT !.created_path = (entry = "None")]
    IN  IF ~Cluster_instantiate_lookup(class) THEN {Store_untouched}
        ELSE IF entry = "File" THEN {found}
        ELSE IF invalid = {}
        THEN {[dir EXCEPT !.created = chain_schema, !.loaded = chain_schema]}
        ELSE {[dir EXCEPT !.created = before \cup {id}, !.loaded = before] :
                id \in invalid, before \in SUBSET (chain_schema \ invalid)}

ClusterInstantiate(class, entry) ==
    /\ fnCall = NoCall
    /\ fnCall' = [fn |-> "instantiate", class |-> class, entry |-> entry]
    /\ fnResult' = Cluster_instantiate(class, entry)
    /\ fnStore' \in Cluster_instantiate_store(class, entry)
    /\ UNCHANGED notFnStore

\* ---- tensors: concatenate and the cast of bounds

\* the longest axis of a tensor
MaxDim == 2
\* the most axes of a tensor
MaxRank == 2
\* the most tensors to concatenate
MaxTensors == 2

\* the shape of a tensor: the length of each of its axes
Shapes == SeqsUpTo(1..MaxDim, MaxRank)

\* an axis argument: the empty set for none, or a number
AxisValues == {{}} \cup {{a} : a \in (0 - MaxRank - 1)..MaxRank}

Abs(i) == IF i < 0 THEN 0 - i ELSE i

\* cast_axis, of an axis that is a number: ndim - |axis| underflows for an
\* axis below -ndim, and the index that follows is out of range
cast_axis(axis, ndim) ==
    IF axis = {} THEN Ok(ndim)
    ELSE LET a == CHOOSE a \in axis : TRUE
         IN  IF a >= ndim THEN Error("Unsupported")
             ELSE IF a >= 0 THEN Ok(a)
             ELSE IF Abs(a) > ndim THEN Panic
             ELSE Ok(ndim - Abs(a))

\* the unsigned subtraction wraps around: a build without overflow checks
\* returns Ok of a number near usize::MAX
Overflow == [kind |-> "Overflow"]

\* what cast_axis returns: where ndim - |axis| underflows, a build with
\* overflow checks panics and a build without them wraps around
cast_axis_outcomes(axis, ndim) ==
    IF cast_axis(axis, ndim) = Panic THEN {Panic, Overflow}
    ELSE {cast_axis(axis, ndim)}

CastAxis(axis, ndim) ==
    /\ fnCall = NoCall
    /\ fnCall' = [fn |-> "cast_axis", axis |-> axis, ndim |-> ndim]
    /\ fnResult' \in cast_axis_outcomes(axis, ndim)
    /\ UNCHANGED notFn

\* ConcatenateHandler::concatenate: the shape of the tensor it returns
Concatenate_concatenate(shape_in, tensors) == Ok(<<Len(tensors)>> \o shape_in)

\* ConcatenateHandler::concatenate_axis: the shape of the tensor it returns;
\* axis counts from 0
Concatenate_concatenate_axis(shape_in, axis, tensors) ==
    Ok([shape_in EXCEPT ![axis + 1] = shape_in[axis + 1] * Len(tensors)])

\* ConcatenateHandler::post, given the shapes of the tensors
Concatenate_post(tensors, axis) ==
    IF tensors = <<>> THEN Error("Unsupported")
    ELSE LET shape_in == tensors[1]
         IN  IF \E i \in 1..Len(tensors) : tensors[i] # shape_in
             THEN Error("Unsupported")
             ELSE IF axis = {} THEN Concatenate_concatenate(shape_in, tensors)
             ELSE LET cast == cast_axis(axis, Len(shape_in))
                  IN  IF cast.kind # "Ok" THEN cast
                      ELSE Concatenate_concatenate_axis(shape_in, cast.value, tensors)

ConcatenatePost(tensors, axis) ==
    /\ fnCall = NoCall
    /\ fnCall' = [fn |-> "concatenate", tensors |-> tensors, axis |-> axis]
    /\ fnResult' = Concatenate_post(tensors, axis)
    /\ UNCHANGED notFn

\* cast_bound, of a bound that is an integer
cast_bound(dim, bound) ==
    IF Abs(bound) > dim THEN Error("BadRequest")
    ELSE IF bound < 0 THEN Ok(dim - Abs(bound))
    ELSE Ok(bound)

\* cast_bounds, of a value that is a number: the bound of the first axis
cast_bounds(shape, i) ==
    IF shape = <<>> THEN Panic
    ELSE LET bound == cast_bound(shape[1], i)
         IN  IF bound.kind # "Ok" THEN bound ELSE Ok(<<bound.value>>)

CastBound(dim, bound) ==
    /\ fnCall = NoCall
    /\ fnCall' = [fn |-> "cast_bound", dim |-> dim, bound |-> bound]
    /\ fnResult' = cast_bound(dim, bound)
    /\ UNCHANGED notFn

CastBounds(shape, i) ==
    /\ fnCall = NoCall
    /\ fnCall' = [fn |-> "cast_bounds", shape |-> shape, bound |-> i]
    /\ fnResult' = cast_bounds(shape, i)
    /\ UNCHANGED notFn

----------------------------------------------------------------------------
(* Sparse copy_from, CopySparseHandler::post: the elements of the source   *)
(* stream are mapped to one write_value_at future each,                    *)
(*     elements.map_ok(|(coord, value)| tensor.write_value_at(..))         *)
(*             .try_buffer_unordered(num_cpus::get()).try_fold((), ..)     *)
(* The items of the source are numbered in stream order.                   *)

\* the most items of the source stream
MaxElements == 4

\* num_cpus::get()
NumCpus == 2

\* an item of the source: an element, or an error of the stream or of the
\* casts of the element
SourceItems == {"element", "error"}

\* a variant without a bound on the futures in progress
CopyWindow_unbounded == MaxElements

\* try_buffer_unordered(num_cpus::get())
CopyWindow == NumCpus

NoError == [kind |-> "none"]

CopyError(from, at) == [kind |-> "Err", from |-> from, at |-> at]

IdleCopy ==
    /\ cpSource = <<>>
    /\ cpPos = 0
    /\ cpSourceEnd = FALSE
    /\ cpInFlight = {}
    /\ cpWritten = {}
    /\ cpFirstErr = NoError
    /\ cpRet = NoResp
    /\ cpPc = "idle"

InitCopy == IdleCopy

\* the handler is called with a source stream
CopyStart(source) ==
    /\ cpPc = "idle"
    /\ cpSource' = source
    /\ cpPc' = "running"
    /\ UNCHANGED <<cpPos, cpSourceEnd, cpInFlight, cpWritten, cpFirstErr, cpRet>>
    /\ UNCHANGED notCopy

\* try_buffer_unordered polls the source while fewer than CopyWindow futures
\* are in progress: an element starts its write, an error is passed on at
\* once and ends the try_fold, which drops the futures in progress
CopyPull ==
    /\ cpPc = "running"
    /\ ~cpSourceEnd
    /\ Cardinality(cpInFlight) < CopyWindow
    /\ cpPos < Len(cpSource)
    /\ cpPos' = cpPos + 1
    /\ IF cpSource[cpPos + 1] = "element"
       THEN /\ cpInFlight' = cpInFlight \cup {cpPos + 1}
            /\ UNCHANGED <<cpFirstErr, cpRet, cpPc>>
       ELSE /\ cpInFlight' = {}
            /\ cpFirstErr' = CopyError("source", cpPos + 1)
            /\ cpRet' = CopyError("source", cpPos + 1)
            /\ cpPc' = "done"
    /\ UNCHANGED <<cpSource, cpSourceEnd, cpWritten>>
    /\ UNCHANGED notCopy

\* the source is found to have ended
CopySourceEnd ==
    /\ cpPc = "running"
    /\ ~cpSourceEnd
    /\ Cardinality(cpInFlight) < CopyWindow
    /\ cpPos = Len(cpSource)
    /\ cpSourceEnd' = TRUE
    /\ UNCHANGED <<cpSource, cpPos, cpInFlight, cpWritten, cpFirstErr, cpRet, cpPc>>
    /\ UNCHANGED notCopy

\* a write in progress completes, in any order: with Ok the element is
\* written, with Err the try_fold ends and drops the futures in progress
CopyWriteComplete(i, ok) ==
    /\ cpPc = "running"
    /\ i \in cpInFlight
    /\ IF ok
       THEN /\ cpInFlight' = cpInFlight \ {i}
            /\ cpWritten' = cpWritten \cup {i}
            /\ UNCHANGED <<cpFirstErr, cpRet, cpPc>>
       ELSE /\ cpInFlight' = {}
            /\ cpFirstErr' = CopyError("write", i)
            /\ cpRet' = CopyError("write", i)
            /\ cpPc' = "done"
            /\ UNCHANGED cpWritten
    /\ UNCHANGED <<cpSource, cpPos, cpSourceEnd>>
    /\ UNCHANGED notCopy

\* the buffered stream has ended: the handler returns the tensor
CopyReturn ==
    /\ cpPc = "running"
    /\ cpSourceEnd
    /\ cpInFlight = {}
    /\ cpRet' = StateCollection("tensor")
    /\ cpPc' = "done"
    /\ UNCHANGED <<cpSource, cpPos, cpSourceEnd, cpInFlight, cpWritten, cpFirstErr>>
    /\ UNCHANGED notCopy

----------------------------------------------------------------------------
(* ConcatenateHandler::concatenate and concatenate_axis: the output tensor *)
(* is created blank and every input is written to its part of the output   *)
(* by one write future of a FuturesUnordered, which the handler drains     *)
(* with try_next.  Inputs and coordinates are numbered from 0.              *)

\* the coordinates of a tensor of the shape
RECURSIVE Coords(_)

Coords(shape) ==
    IF shape = <<>> THEN {<<>>}
    ELSE {<<c>> \o rest : c \in 0..(shape[1] - 1), rest \in Coords(Tail(shape))}

\* enum AxisBounds: At(i) and In(start..end)
AxisBounds_At(i) == [kind |-> "At", start |-> i, end |-> i + 1]

AxisBounds_In(start, end) == [kind |-> "In", start |-> start, end |-> end]

AxisBounds_all(dim) == AxisBounds_In(0, dim)

\* a variant in which every input is written at the start of the axis
Concatenate_start_zero(i, dim) == 0

\* let start = i as u64 * shape_in[axis]
Concatenate_start(i, dim) == i * dim

\* the bounds of the write of input i: concatenate has no axis, and for
\* concatenate_axis the axis counts from 0
Concatenate_bounds(shape_in, axis, i) ==
    IF axis = {} THEN <<AxisBounds_At(i)>>
    ELSE LET a == (CHOOSE a \in axis : TRUE) + 1
             start == Concatenate_start(i, shape_in[a])
         IN  [x \in 1..Len(shape_in) |->
                IF x = a THEN AxisBounds_In(start, start + shape_in[a])
                ELSE AxisBounds_all(shape_in[x])]

\* the shape of the output
Concatenate_shape_out(shape_in, axis, n) ==
    LET tensors == [i \in 1..n |-> shape_in]
    IN  IF axis = {} THEN Concatenate_concatenate(shape_in, tensors).value
        ELSE Concatenate_concatenate_axis(shape_in, CHOOSE a \in axis : TRUE,
                                          tensors).value

\* the coordinates of the output that the bounds select
Bounds_coords(bounds, shape_out) ==
    {c \in Coords(shape_out) :
       \A x \in 1..Len(bounds) : bounds[x].start <= c[x] /\ c[x] < bounds[x].end}

\* the coordinate of the written tensor that lands on the coordinate c of the
\* output: an axis bounded by At is dropped, one bounded by In is shifted
Bounds_local(bounds, c) ==
    LET kept == SelectSeq([x \in 1..Len(c) |-> x],
                          LAMBDA x : x > Len(bounds) \/ bounds[x].kind # "At")
    IN  [k \in 1..Len(kept) |->
           IF kept[k] <= Len(bounds) THEN c[kept[k]] - bounds[kept[k]].start
           ELSE c[kept[k]]]

\* an element of the output: zero, or the element of an input
Zero == [input |-> 0 - 1, at |-> <<>>]

Element(i, at) == [input |-> i, at |-> at]

\* DenseTensor::write(txn, bounds, tensor), of input i
Tensor_write(out, shape_out, bounds, i) ==
    [c \in DOMAIN out |->
       IF c \in Bounds_coords(bounds, shape_out)
       THEN Element(i, Bounds_local(bounds, c))
       ELSE out[c]]

IdleConcat ==
    /\ ccShape = <<>>
    /\ ccAxis = {}
    /\ ccWrites = <<>>
    /\ ccOut = <<>>
    /\ ccRet = NoResp
    /\ ccPc = "idle"

InitConcat == IdleConcat

\* the inputs of writes numbered from 0
Inputs == 0..(Len(ccWrites) - 1)

\* Self::blank(..).await? and the collection of the writes
ConcatenateStart(shape_in, n, axis, blank_ok) ==
    /\ ccPc = "idle"
    /\ ccShape' = shape_in
    /\ ccAxis' = axis
    /\ IF blank_ok
       THEN /\ ccWrites' = [i \in 1..n |-> "pending"]
            /\ ccOut' = [c \in Coords(Concatenate_shape_out(shape_in, axis, n)) |-> Zero]
            /\ ccRet' = NoResp
            /\ ccPc' = "writing"
       ELSE /\ ccWrites' = [i \in 1..n |-> "none"]
            /\ ccOut' = <<>>
            /\ ccRet' = Error("Internal")
            /\ ccPc' = "done"
    /\ UNCHANGED notConcat

\* the write of input i completes
ConcatenateWrite(i, ok) ==
    /\ ccPc = "writing"
    /\ ccWrites[i + 1] = "pending"
    /\ ccWrites' = [ccWrites EXCEPT ![i + 1] = IF ok THEN "ok" ELSE "err"]
    /\ ccOut' = IF ok
                THEN Tensor_write(ccOut,
                                  Concatenate_shape_out(ccShape, ccAxis, Len(ccWrites)),
                                  Concatenate_bounds(ccShape, ccAxis, i), i)
                ELSE ccOut
    /\ UNCHANGED <<ccShape, ccAxis, ccRet, ccPc>>
    /\ UNCHANGED notConcat

\* while let Some(()) = writes.try_next().await? {}: the result of a
\* completed write is taken; an error is returned and the other writes are
\* dropped
ConcatenateTryNext(i) ==
    /\ ccPc = "writing"
    /\ ccWrites[i + 1] \in {"ok", "err"}
    /\ IF ccWrites[i + 1] = "err"
       THEN /\ ccRet' = Error("Internal")
            /\ ccPc' = "done"
            /\ ccWrites' = [j \in DOMAIN ccWrites |->
                              IF ccWrites[j] = "pending" THEN "dropped"
                              ELSE IF j = i + 1 THEN "failed"
                              ELSE ccWrites[j]]
       ELSE /\ ccWrites' = [ccWrites EXCEPT ![i + 1] = "taken"]
            /\ UNCHANGED <<ccRet, ccPc>>
    /\ UNCHANGED <<ccShape, ccAxis, ccOut>>
    /\ UNCHANGED notConcat

\* try_next returns None: Ok(concatenated.into())
ConcatenateReturn ==
    /\ ccPc = "writing"
    /\ \A i \in Inputs : ccWrites[i + 1] = "taken"
    /\ ccRet' = Ok(ccOut)
    /\ ccPc' = "done"
    /\ UNCHANGED <<ccShape, ccAxis, ccWrites, ccOut>>
    /\ UNCHANGED notConcat

----------------------------------------------------------------------------
(* Specifications *)

\* the transaction protocol of the cluster: commit, rollback and finalize of
\* transactions that have recorded their mutations
Next ==
    \/ \E t \in Txns : ClusterCommitBegin(t)
    \/ \E c \in Chains, t \in Txns : ChainCommit(c, t)
    \/ \E c \in Chains, t \in Txns : ChainCommitFail(c, t)
    \/ \E t \in Txns : ClusterCommitEnd(t)
    \/ \E t \in Txns : ClusterCommitUnwind(t)
    \/ \E t \in Txns : TxnRollback(t)
    \/ \E t \in Txns : ClusterFinalizeBegin(t)
    \/ \E c \in Chains, t \in Txns : ChainFinalize(c, t)
    \/ \E t \in Txns : ClusterFinalizeEnd(t)

Init ==
    InitPending /\ IdleBTree /\ IdleView /\ IdleWriteback /\ IdleRoute /\ IdleFn
      /\ IdleCopy /\ IdleConcat

Spec == Init /\ [][Next]_vars

\* the chains' logs: mutations, commits, rollbacks and a reload of the cluster
NextLoad ==
    \/ \E c \in Chains, t \in Txns, op \in {"insert", "delete"}, k \in ChainKeys :
           ChainPut(c, t, op, k)
    \/ \E t \in Txns : ClusterCommitBegin(t)
    \/ \E c \in Chains, t \in Txns : ChainCommit(c, t)
    \/ \E t \in Txns : ClusterCommitEnd(t)
    \/ \E t \in Txns : TxnRollback(t)
    \/ ClusterReload

LoadInit ==
    InitCluster /\ IdleBTree /\ IdleView /\ IdleWriteback /\ IdleRoute /\ IdleFn
      /\ IdleCopy /\ IdleConcat

SpecLoad == LoadInit /\ [][NextLoad]_vars


\* the B-tree under two transactions
NextBTree ==
    \/ \E h \in BTrees, t \in Txns, k \in Keys : BTreeInsert(h, t, k)
    \/ \E t \in Txns, r \in DeleteRanges : BTreeDelete(Tree, t, r)
    \/ \E h \in BTrees, t \in Txns : BTreeDelete(h, t, RangeDefault)
    \/ \E t \in Txns : BTreeCommit(t)
    \/ \E t \in Txns : BTreeRollback(t)
    \/ \E t \in Txns : BTreeFinalize(t)
    \/ \E h \in BTrees, t \in Txns : BTreeViewTransact(h, t)

BTreeInit ==
    InitBTree /\ IdleCluster /\ IdleView /\ IdleWriteback /\ IdleRoute /\ IdleFn
      /\ IdleCopy /\ IdleConcat

SpecBTree == BTreeInit /\ [][NextBTree]_vars

\* the views of a table and their streams
NextView ==
    \/ \E reverse \in BOOLEAN : TableIndexSlice(reverse)
    \/ TableSliceNew
    \/ \E columns \in ColumnLists : ViewSelect(columns)
    \/ \E columns \in ColumnLists : ViewGroupBy(columns)
    \/ \E columns \in ColumnLists, reverse \in BOOLEAN : ViewOrderBy(columns, reverse)
    \/ ViewReversed
    \/ ViewStream

ViewInit ==
    InitView /\ IdleCluster /\ IdleBTree /\ IdleWriteback /\ IdleRoute /\ IdleFn
      /\ IdleCopy /\ IdleConcat

SpecView == ViewInit /\ [][NextView]_vars

\* slices and merges of views, their streams and counts
NextQuery ==
    \/ \E bounds \in ViewBounds : ViewIndexSliceNew(bounds)
    \/ \E bounds \in ViewBounds : ViewTableSlice(bounds)
    \/ \E bounds \in ViewBounds : ViewSliceIndex(bounds)
    \/ \E bounds \in ViewBounds : ViewMerge(bounds)
    \/ \E bounds \in ViewBounds : ViewSlice(bounds)
    \/ ViewStream
    \/ ViewCount

QueryInit ==
    InitView /\ IdleCluster /\ IdleBTree /\ IdleWriteback /\ IdleRoute /\ IdleFn
      /\ IdleCopy /\ IdleConcat

SpecQuery == QueryInit /\ [][NextQuery]_vars

\* limits of slices, their streams and counts
NextLimit ==
    \/ \E bounds \in ViewBounds : ViewIndexSliceNew(bounds)
    \/ \E bounds \in ViewBounds : ViewTableSlice(bounds)
    \/ \E n \in 0..MaxLimit : ViewLimit(n)
    \/ ViewStream
    \/ ViewCount

LimitInit ==
    InitView /\ IdleCluster /\ IdleBTree /\ IdleWriteback /\ IdleRoute /\ IdleFn
      /\ IdleCopy /\ IdleConcat

SpecLimit == LimitInit /\ [][NextLimit]_vars

\* delete and update of a view
NextWriteback ==
    \/ \E v \in WbViews, op \in WbOps, n \in 0..MaxRows : WritebackStart(v, op, n)
    \/ WritebackPull
    \/ WritebackStreamEnd
    \/ \E r \in RowIds, ok \in BOOLEAN : WritebackComplete(r, ok)
    \/ WritebackReturn

WritebackInit ==
    InitWriteback /\ IdleCluster /\ IdleBTree /\ IdleView /\ IdleRoute /\ IdleFn
      /\ IdleCopy /\ IdleConcat

SpecWriteback == WritebackInit /\ [][NextWriteback]_vars

\* requests to a B-tree, handled one at a time
NextRoute ==
    \/ /\ rtReq = NoReq
       /\ \E h \in RouteTrees, path \in RoutePaths, range \in RouteRanges :
             \/ BTreeGet(h, RouteTxn, path, range)
             \/ BTreePost(h, RouteTxn, path, range)
             \/ \E value \in PutValues : BTreePut(h, RouteTxn, path, range, value)
    \/ BTreeRespond

RouteInit ==
    InitBTree /\ InitRoute /\ IdleCluster /\ IdleView /\ IdleWriteback /\ IdleFn
      /\ IdleCopy /\ IdleConcat

SpecRoute == RouteInit /\ [][NextRoute]_vars

\* functions applied to every argument of a bounded set
NextFn ==
    \/ /\ fnCall = NoCall
       /\ \/ \E key \in SeqsUpTo(KeyValues, MaxArity + 1),
                schema \in SeqsUpTo(KeyColumns, MaxArity) :
                  \/ ValidateKey(key, schema)
                  \/ ValidatePrefix(key, schema)
          \/ \E bounds \in TableBounds, columns \in IndexColumns :
                IntoBTreeRange(bounds, columns)
          \/ \E from \in BOOLEAN, order \in ColumnLists, reverse \in BOOLEAN :
                IndexSliceOrderBy(IndexSlice_all(from), order, reverse)
          \/ \E v \in FnViews, columns \in ColumnLists : TableGroupBy(v, columns)
          \/ \E v \in FnViews, bounds \in ViewBounds : TableValidateBounds(v, bounds)
          \/ \E v \in FnViews, order \in ColumnLists : TableValidateOrder(v, order)
          \/ \E v \in FnViews, order \in ColumnLists, reverse \in BOOLEAN :
                TableOrderBy(v, order, reverse)
          \/ \E v \in FnViews : TableReversed(v)
          \/ \E v \in FnSlices, bounds \in ViewBounds :
                v.kind = "IndexSlice" /\ IndexSliceSliceIndex(v, bounds)
          \/ \E class \in InstanceClasses, entry \in DirEntries :
                ClusterInstantiate(class, entry)
          \/ \E tensors \in SeqsUpTo(Shapes, MaxTensors), axis \in AxisValues :
                ConcatenatePost(tensors, axis)
          \/ \E axis \in AxisValues, ndim \in 0..MaxRank : CastAxis(axis, ndim)
          \/ \E dim \in 0..MaxDim, bound \in (0 - MaxDim - 1)..(MaxDim + 1) :
                CastBound(dim, bound)
          \/ \E shape \in Shapes, bound \in (0 - MaxDim - 1)..(MaxDim + 1) :
                CastBounds(shape, bound)
    \/ FnReturn

FnInit ==
    InitFn /\ IdleCluster /\ IdleBTree /\ IdleView /\ IdleWriteback /\ IdleRoute
      /\ IdleCopy /\ IdleConcat

SpecFn == FnInit /\ [][NextFn]_vars

\* sparse copy_from of a source stream
NextCopy ==
    \/ \E source \in SeqsUpTo(SourceItems, MaxElements) : CopyStart(source)
    \/ CopyPull
    \/ CopySourceEnd
    \/ \E i \in 1..MaxElements, ok \in BOOLEAN : CopyWriteComplete(i, ok)
    \/ CopyReturn

CopyInit ==
    InitCopy /\ IdleCluster /\ IdleBTree /\ IdleView /\ IdleWriteback /\ IdleRoute
      /\ IdleFn /\ IdleConcat

SpecCopy == CopyInit /\ [][NextCopy]_vars

\* concatenate
NextConcat ==
    \/ /\ ccPc = "idle"
       /\ \E shape_in \in Shapes, n \in 1..MaxTensors, blank_ok \in BOOLEAN :
             \E axis \in {{}} \cup {{a} : a \in 0..(Len(shape_in) - 1)} :
                ConcatenateStart(shape_in, n, axis, blank_ok)
    \/ \E i \in Inputs, ok \in BOOLEAN : ConcatenateWrite(i, ok)
    \/ \E i \in Inputs : ConcatenateTryNext(i)
    \/ ConcatenateReturn

ConcatInit ==
    InitConcat /\ IdleCluster /\ IdleBTree /\ IdleView /\ IdleWriteback /\ IdleRoute
      /\ IdleFn /\ IdleCopy

SpecConcat == ConcatInit /\ [][NextConcat]_vars

----------------------------------------------------------------------------
(* Claims about the Cluster and its Chains *)

CommittedOn(c, t) == CommittedIn(log[ChainDir(c)], t)

\* C1: once Cluster.commit(txn) has finished, also when a chain's commit has
\* failed, either every member chain has committed the transaction or none.
C1_AllOrNone ==
    \A t \in Txns :
        txnState[t] \in {"committed", "aborted"} =>
            \/ \A c \in Chains : CommittedOn(c, t)
            \/ \A c \in Chains : ~CommittedOn(c, t)

\* C2: when a transaction of the cluster is rolled back, every member chain
\* has received rollback(txn), and no chain shows the transaction's
\* mutations any more.
C2_RollbackReachesEveryChain ==
    \A t \in Txns :
        txnState[t] = "rolledback" =>
            /\ rolledBackOn[t] = Chains
            /\ \A c \in Chains : ChainView(c, t) = subject[c]

\* C3: Cluster.commit forwards commit to every member chain and returns only
\* when the commit of every chain has completed; Cluster.finalize does the
\* same with finalize.  No chain is skipped.
C3_ForwardsToEveryChain ==
    \A t \in Txns :
        /\ txnState[t] = "committing" =>
               \A c \in Chains : commitCall[t][c] # "none"
        /\ txnState[t] = "committed" =>
               \A c \in Chains : commitCall[t][c] \in {"returned", "failed"}
        /\ txnState[t] \in {"finalized", "discarded"} =>
               \A c \in Chains : finalizeCall[t][c] = "returned"

\* a transaction that every chain committed, one after the other, and that
\* the cluster has finalized on every chain
C3_Witness ==
    \E t \in Txns :
        /\ txnState[t] = "finalized"
        /\ \A c \in Chains : CommittedOn(c, t)
        /\ \A c \in Chains : finalizeCall[t][c] = "returned"

----------------------------------------------------------------------------
(* Claims about the B-tree (SpecBTree) *)

\* the reads (stream, len, is_empty) issued under transaction t through the
\* handle h
BTreeReads(h, t) ==
    <<BTree_stream(h, t, RangeDefault, FALSE),
      BTree_len(h, t, RangeDefault),
      BTree_is_empty(h, t)>>

\* the three reads show exactly the keys of S, in the handle's direction
ReadsShow(h, rd, S) ==
    rd = <<IF h.reverse THEN Reverse(Ascending(S)) ELSE Ascending(S),
           Cardinality(S), S = {}>>

\* the keys of the handle's range
InRange(h) == {k \in Keys : RangeContains(h.range, k)}

\* C4: keys inserted or deleted under a transaction t are seen at once by
\* the reads (stream, len, is_empty) issued under t, the reads of every other
\* transaction are unchanged by t's pending writes, and after a rollback of
\* t its writes are seen by no transaction: t and the others read the
\* committed keys (the others with their own pending writes).
C4_TxnVisibility ==
    [][\A t \in Txns :
         LET added   == btPending'[t].adds \ btPending[t].adds
             removed == (btPending'[t].dels \ btPending[t].dels)
                          \cup (btPending[t].adds \ btPending'[t].adds)
             others  == Txns \ {t}
             written == /\ btStatus[t] = "active"
                        /\ btStatus'[t] = "active"
                        /\ btPending'[t] # btPending[t]
         IN  /\ written =>
                  /\ added \subseteq File_visible(t)'
                  /\ removed \cap File_visible(t)' = {}
                  /\ \A h \in BTrees :
                       /\ ReadsShow(h, BTreeReads(h, t)',
                                    File_visible(t)' \cap InRange(h))
                       /\ \A u \in others : BTreeReads(h, u)' = BTreeReads(h, u)
             /\ BTreeRollback(t) =>
                  \A h \in BTrees :
                    /\ ReadsShow(h, BTreeReads(h, t)', btCommitted \cap InRange(h))
                    /\ \A u \in others : BTreeReads(h, u)' = BTreeReads(h, u)
             /\ BTreeCommit(t) =>
                  \A h \in BTrees :
                    ReadsShow(h, BTreeReads(h, t)',
                              File_visible(t) \cap InRange(h))
      ]_vars

\* t has rolled back an insert and reads the committed keys, while u holds a
\* pending insert and a pending delete that it sees and t does not
C4_Witness ==
    \E t \in Txns, u \in Txns :
       /\ btStatus[t] = "rolledback"
       /\ btStatus[u] = "active"
       /\ btPending[u].adds # {}
       /\ btPending[u].dels # {}
       /\ btPending[u].adds \subseteq SeqSet(BTreeReads(Tree, u)[1])
       /\ btPending[u].adds \cap SeqSet(BTreeReads(Tree, t)[1]) = {}
       /\ btPending[u].dels \cap SeqSet(BTreeReads(Tree, u)[1]) = {}
       /\ btPending[u].dels \subseteq SeqSet(BTreeReads(Tree, t)[1])

----------------------------------------------------------------------------
(* Claims about the table views (SpecView) *)

\* the stream s with adjacent duplicates removed
RECURSIVE Dedup(_)
Dedup(s) ==
    IF Len(s) <= 1 THEN s
    ELSE LET front == Dedup(SubSeq(s, 1, Len(s) - 1))
         IN  IF s[Len(s)] = s[Len(s) - 1] THEN front ELSE Append(front, s[Len(s)])

\* C6: the stream of an Aggregate is its source stream with adjacent
\* duplicates removed: the first source row and then every source row that
\* differs from its predecessor, so it is non-empty whenever the source is
\* and no two consecutive rows of it are equal.
C6_AggregateRemovesAdjacentDuplicates ==
    (streamed /\ view.kind = "Aggregate") =>
       LET source == Table_stream(view.source)
       IN  /\ viewOut = Dedup(source)
           /\ source # <<>> => (viewOut # <<>> /\ viewOut[1] = source[1])
           /\ \A i \in 1..(Len(viewOut) - 1) : viewOut[i] # viewOut[i + 1]

\* the position of a column in a schema
ColumnIndex(schema, name) == CHOOSE i \in 1..Len(schema) : schema[i] = name

\* C7: the stream of select(columns) yields one row per source row, holding
\* the source row's values of the listed columns in the listed order,
\* whether or not the list is a prefix of the source's columns.
C7_SelectProjectsListedColumns ==
    (streamed /\ view.kind = "ColumnSelection") =>
       LET source == Table_stream(view.source)
           schema == Table_columns(view.source)
       IN  viewOut = [n \in 1..Len(source) |->
                        [j \in 1..Len(view.columns) |->
                           source[n][ColumnIndex(schema, view.columns[j])]]]

\* C8: the stream of a reversed index slice (order_by(columns, true) or
\* reversed()) is the reversal of the stream of the forward slice, and the
\* stream of a reversed TableSlice is the reversal of that of the TableSlice.
C8_ReversedStreamIsReversal ==
    streamed =>
       /\ (view.kind = "IndexSlice" /\ view.reverse) =>
             viewOut = Reverse(Table_stream([view EXCEPT !.reverse = FALSE]))
       /\ (view.kind = "TableSlice" /\ view.reversed) =>
             viewOut = Reverse(Table_stream([view EXCEPT !.reversed = FALSE]))

----------------------------------------------------------------------------
(* Claims about delete and update of a view (SpecWriteback) *)

\* C9: delete(view) reads the whole stream of the view before any delete_row
\* is applied, has at most BufferSize delete_row calls in flight, and
\* deletes every row of the stream exactly once.
C9_DeleteReadsStreamFirst ==
    (wbOp = "delete" /\ wbPc # "idle") =>
       /\ (\E r \in RowIds : wbApplied[r] > 0) => wbStreamDone
       /\ Cardinality(wbInFlight) <= BufferSize
       /\ \A r \in RowIds : wbApplied[r] <= 1
       /\ (wbPc = "done" /\ wbFailed = {}) =>
             \A r \in 1..wbLen : wbApplied[r] = 1

\* C10: when a delete_row or update_row of a view's delete or update has
\* failed, the operation returns an error, whatever came after the failure
\* and whichever the view: TableSlice, Limited or Merged.
C10_RowErrorIsReturned ==
    (wbPc = "done" /\ wbFailed # {}) => wbRet = "Err"

----------------------------------------------------------------------------
(* Claims about the requests to a B-tree *)

\* the request just handled is a PUT of a single key that the schema and the
\* tree accept, sent to the empty path
PutOfKey(req) ==
    /\ req.method = "PUT"
    /\ req.path = <<>>
    /\ req.value.kind = "Key"
    /\ validate_key(req.value.key, BTree_schema).kind = "Ok"
    /\ BTree_accepts(req.h, validate_key(req.value.key, BTree_schema).value[1].v)

\* C11: a PUT with an empty path, a valid range and a valid key inserts the
\* key under the request's transaction, whatever the range: once the PUT is
\* handled the transaction sees the key.
C11_PutInsertsForEveryRange ==
    [][PutOfKey(rtReq') =>
         LET t == rtReq'.t
             k == validate_key(rtReq'.value.key, BTree_schema).value[1].v
         IN  k \in (btCommitted' \ btPending'[t].dels) \cup btPending'[t].adds]_vars

\* the keys that transaction t sees through h
SeenThrough(h, t) == {k \in File_visible(t) : RangeContains(h.range, k)}

FullKey(v) == [start |-> Inclusive(v), end |-> Inclusive(v)]

\* what a GET of path and range is to return
GetReturns(h, t, path, range) ==
    CASE path = <<>> /\ range = RangeDefault -> StateCollection(h)
      [] path = <<>> /\ (\E v \in Keys : range = FullKey(v)) ->
           LET v == range.start.v
           IN  IF v \in SeenThrough(h, t) THEN StateKey(v) ELSE Error("NotFound")
      [] path = <<>> /\ range # RangeDefault /\ (\A v \in Keys : range # FullKey(v)) ->
           StateSlice(h, range, FALSE)
      [] path = <<"count">> ->
           StateNumber(Cardinality({k \in SeenThrough(h, t) : RangeContains(range, k)}))
      [] path = <<"reverse">> -> StateSlice(h, range, TRUE)
      [] OTHER -> Error("NotFound")

\* C12: a GET with an empty path returns the tree itself for the default
\* range, the matching key for a full key that is present, NotFound for a
\* full key that is absent, and a forward slice otherwise; the path count
\* returns the number of keys in the range, reverse a reversed slice, any
\* other path NotFound; and a GET leaves the keys of the tree as they were.
C12_GetRoutes ==
    [][rtReq'.method = "GET" =>
         /\ rtResp' = GetReturns(rtReq'.h, rtReq'.t, rtReq'.path, rtReq'.range)
         /\ UNCHANGED <<btCommitted, btPending>>]_vars

\* a GET of a full key through a view returned the key, which the
\* transaction has inserted and not committed
C12_Witness ==
    /\ rtReq.method = "GET"
    /\ rtReq.h.kind = "View"
    /\ rtReq.path = <<>>
    /\ rtResp.kind = "Key"
    /\ rtReq.range = FullKey(rtResp.key)
    /\ rtResp.key \notin btCommitted

\* C13: a POST with the path delete and where = r removes, within the
\* transaction, every key of r that the receiver holds and no other key, and
\* a POST with any other path removes and adds nothing.
C13_PostDeletesRange ==
    [][rtReq'.method = "POST" =>
         LET h == rtReq'.h
             t == rtReq'.t
             r == rtReq'.range
             after == (btCommitted' \ btPending'[t].dels) \cup btPending'[t].adds
         IN  /\ btCommitted' = btCommitted
             /\ IF rtReq'.path = <<"delete">>
                THEN after = File_visible(t)
                               \ {k \in SeenThrough(h, t) : RangeContains(r, k)}
                ELSE btPending' = btPending]_vars

\* a POST of delete has removed a committed key of its range and has left a
\* key outside the range in place
C13_Witness ==
    /\ rtReq.method = "POST"
    /\ rtReq.path = <<"delete">>
    /\ \E k \in btCommitted :
          RangeContains(rtReq.range, k) /\ k \notin File_visible(rtReq.t)
    /\ \E k \in File_visible(rtReq.t) : ~RangeContains(rtReq.range, k)

----------------------------------------------------------------------------
(* Claims about functions *)

\* the value, cast to the dtype of the column, is within the column's max_len
FitsColumn(value, column) ==
    LET cast == ValueType_try_cast(column.dtype, value)
    IN  /\ cast.kind = "Ok"
        /\ \A size \in column.max_len : serialized_size(cast.value) <= size

\* C14: validate_key accepts a key exactly when its arity is the number of
\* columns and every component, cast to its column's dtype, is within the
\* column's max_len; validate_prefix accepts exactly the keys of at most that
\* arity under the same rule, the empty prefix included; whatever they do
\* not accept they reject with BadRequest.
C14_ValidateKeyAndPrefix ==
    LET key == fnCall.key
        schema == fnCall.schema
    IN  /\ fnCall.fn = "validate_key" =>
              /\ fnResult.kind = "Ok" <=>
                    /\ Len(key) = Len(schema)
                    /\ \A i \in 1..Len(key) : FitsColumn(key[i], schema[i])
              /\ fnResult.kind # "Ok" => fnResult = Error("BadRequest")
        /\ fnCall.fn = "validate_prefix" =>
              /\ fnResult.kind = "Ok" <=>
                    /\ Len(key) <= Len(schema)
                    /\ \A i \in 1..Len(key) : FitsColumn(key[i], schema[i])
              /\ fnResult.kind # "Ok" => fnResult = Error("BadRequest")

\* validate_prefix has accepted a proper prefix with an integer that fits its
\* string column only once it is cast
C14_Witness ==
    /\ fnCall.fn = "validate_prefix"
    /\ fnResult.kind = "Ok"
    /\ 0 < Len(fnCall.key)
    /\ Len(fnCall.key) < Len(fnCall.schema)
    /\ \E i \in 1..Len(fnCall.key) :
          /\ fnCall.key[i].dtype # fnCall.schema[i].dtype
          /\ \E size \in fnCall.schema[i].max_len : serialized_size(fnCall.key[i]) > size

\* C15: into_btree_range succeeds exactly when the names bounded are the
\* first k columns of the index; it then returns k start and k end bounds in
\* index order, Is(v) as Inclusive(v) at both ends and In(range) as the ends
\* of the range; for every other pair, bounds that name more columns than the
\* index has among them, it returns an error value.
C15_IntoBTreeRange ==
    fnCall.fn = "into_btree_range" =>
      LET bounds == fnCall.bounds
          columns == fnCall.columns
          k == Cardinality(DOMAIN bounds)
          prefix == k <= Len(columns) /\ DOMAIN bounds = {columns[i] : i \in 1..k}
      IN  /\ fnResult.kind = "Ok" <=> prefix
          /\ prefix =>
                /\ Len(fnResult.value.start) = k
                /\ Len(fnResult.value.end) = k
                /\ \A i \in 1..k :
                      LET b == bounds[columns[i]]
                      IN  /\ fnResult.value.start[i] =
                                IF b.kind = "Is" THEN Inclusive(b.v) ELSE b.start
                          /\ fnResult.value.end[i] =
                                IF b.kind = "Is" THEN Inclusive(b.v) ELSE b.end
          /\ ~prefix => fnResult.kind = "Err"

\* C16: order_by on an index slice succeeds exactly when the slice's schema
\* starts with the columns to order by; otherwise it fails with an error of
\* the kind Unsupported and returns no view.
C16_OrderByUnsupported ==
    fnCall.fn = "order_by" =>
      IF IsPrefix(fnCall.order, Schema)
      THEN fnResult.kind = "IndexSlice"
      ELSE fnResult = Error("Unsupported")

\* a member that is a Get reference whose path names a chain type, or an
\* operation definition
ValidMember(m) == m.kind = "Op" \/ (m.kind = "Get" /\ m.chain)

\* instantiate has failed with BadRequest if a member is not valid, and if it
\* has returned a cluster its chains are the Get members and its class proto
\* the operation definitions
MembersChecked ==
    LET proto == fnCall.class.proto
    IN  /\ (\E id \in DOMAIN proto : ~ValidMember(proto[id])) =>
              fnResult = Error("BadRequest")
        /\ fnResult.kind = "Ok" =>
              /\ fnResult.value.chains = {id \in DOMAIN proto : proto[id].kind = "Get"}
              /\ fnResult.value.proto = {id \in DOMAIN proto : proto[id].kind = "Op"}

\* C17, as stated: Cluster::instantiate fails with BadRequest and returns no
\* cluster whenever a member of the proto is neither a Get reference whose
\* path names a chain type nor an operation definition, at whatever position;
\* when all members are valid the cluster's chains are exactly the Get members
\* and the class proto keeps exactly the operation definitions.
C17_AsStated == fnCall.fn = "instantiate" => MembersChecked

\* C17, amended: the same of a class that specifies the path of the cluster;
\* such a class is instantiated when all its members are valid, its chain
\* schemas are chain schemas and no file stands at the path of the cluster.
C17_RejectsInvalidMembers ==
    (fnCall.fn = "instantiate" /\ fnCall.class.path = "Some") =>
      /\ MembersChecked
      /\ (/\ \A id \in DOMAIN fnCall.class.proto :
                ValidMember(fnCall.class.proto[id]) /\ fnCall.class.proto[id].schema_ok
          /\ fnCall.entry # "File")
           => fnResult.kind = "Ok"

\* instantiate has rejected a proto whose last member alone is not valid
C17_Witness ==
    /\ fnCall.fn = "instantiate"
    /\ fnCall.class.path = "Some"
    /\ Len(fnCall.class.proto) > 1
    /\ \A id \in 1..(Len(fnCall.class.proto) - 1) : ValidMember(fnCall.class.proto[id])
    /\ ~ValidMember(fnCall.class.proto[Len(fnCall.class.proto)])
    /\ fnResult = Error("BadRequest")

\* the sum of the lengths of the first n tensors along the axis at position a
RECURSIVE SumAlong(_, _, _)
SumAlong(tensors, a, n) ==
    IF n = 0 THEN 0 ELSE tensors[n][a] + SumAlong(tensors, a, n - 1)

\* the tensors have one rank and agree on every axis but the one at position a
AgreeBut(tensors, a) ==
    \A i \in 1..Len(tensors) :
        /\ Len(tensors[i]) = Len(tensors[1])
        /\ \A x \in 1..Len(tensors[1]) : x # a => tensors[i][x] = tensors[1][x]

\* C18: concatenate accepts every non-empty list of tensors whose shapes
\* agree on every axis other than the given one, and the output's length
\* along that axis is the sum of the inputs' lengths along it; with no axis
\* the shapes must be equal and the output shape is the number of tensors
\* followed by the common shape; an empty list is rejected.
C18_ConcatenateAccepts ==
    fnCall.fn = "concatenate" =>
      LET tensors == fnCall.tensors
          n == Len(tensors)
      IN  /\ n = 0 => fnResult.kind = "Err"
          /\ (n > 0 /\ fnCall.axis = {}) =>
                IF \A i \in 1..n : tensors[i] = tensors[1]
                THEN fnResult = Ok(<<n>> \o tensors[1])
                ELSE fnResult.kind = "Err"
          /\ \A a \in fnCall.axis :
                (n > 0 /\ 0 <= a /\ a < Len(tensors[1]) /\ AgreeBut(tensors, a + 1)) =>
                  /\ fnResult.kind = "Ok"
                  /\ fnResult.value =
                        [tensors[1] EXCEPT ![a + 1] = SumAlong(tensors, a + 1, n)]

\* C19: for an axis of length dim an integer bound i is accepted exactly
\* when it denotes an existing coordinate: i >= 0 iff i < dim, giving i, and
\* i < 0 iff -dim <= i, giving dim - |i|; the result lies in [0, dim) and
\* every other bound is rejected with BadRequest.
C19_CastBoundInRange ==
    fnCall.fn = "cast_bound" =>
      LET dim == fnCall.dim
          i == fnCall.bound
      IN  IF (0 <= i /\ i < dim) \/ (i < 0 /\ 0 - dim <= i)
          THEN /\ fnResult = Ok(IF i < 0 THEN dim - Abs(i) ELSE i)
               /\ 0 <= fnResult.value
               /\ fnResult.value < dim
          ELSE fnResult = Error("BadRequest")

----------------------------------------------------------------------------
(* Claims about sparse copy_from *)

\* C20: during sparse copy_from at most NumCpus writes are in flight and no
\* item is pulled from the source while NumCpus writes are pending; the first
\* error, of the source or of a write, ends the ingest, which returns that
\* error and starts no further write.
C20_BoundedIngest ==
    [][/\ Cardinality(cpInFlight') <= NumCpus
       /\ cpPos' # cpPos => Cardinality(cpInFlight) < NumCpus
       /\ (cpPos' # cpPos /\ cpSource[cpPos'] = "error") =>
             cpFirstErr' = CopyError("source", cpPos')
       /\ cpFirstErr' # NoError =>
             /\ cpPc' = "done"
             /\ cpRet' = cpFirstErr'
             /\ cpInFlight' = {}
       /\ cpPc = "done" =>
             /\ cpPos' = cpPos
             /\ cpInFlight' = cpInFlight
             /\ cpWritten' = cpWritten
             /\ cpRet' = cpRet]_vars

\* a write has failed after another was completed, and the ingest has
\* returned its error with items of the source still unread
C20_Witness ==
    /\ cpPc = "done"
    /\ cpFirstErr.kind = "Err"
    /\ cpFirstErr.from = "write"
    /\ cpRet = cpFirstErr
    /\ cpWritten # {}
    /\ cpPos < Len(cpSource)

----------------------------------------------------------------------------
(* Claims about slices, limits and merges of views (SpecLimit, SpecQuery) *)

\* C21: limit(n).stream yields exactly the first min(n, m) rows of the
\* source stream in source order, m being the number of source rows, and
\* limit(n).count returns min(n, m); for n = 0 the stream is empty and the
\* count is 0.
C21_LimitYieldsFirstRows ==
    view.kind = "Limited" =>
       LET source == Table_stream(view.source)
           m == Len(source)
           k == IF view.limit < m THEN view.limit ELSE m
       IN  /\ streamed => viewOut = [i \in 1..k |-> source[i]]
           /\ viewCount # {} => viewCount = {k}
           /\ (streamed /\ view.limit = 0) => viewOut = <<>>
           /\ (viewCount # {} /\ view.limit = 0) => viewCount = {0}

\* a limit below the number of source rows was streamed and counted
C21_Witness ==
    /\ view.kind = "Limited"
    /\ streamed
    /\ viewCount # {}
    /\ view.limit > 0
    /\ view.limit < Len(Table_stream(view.source))
    /\ Len(viewOut) = view.limit

\* the rows of the table that match the bounds, in the order of the index
RowsMatching(bounds) ==
    SortRows({row \in tableRows :
                RowInRange(Bounds_into_btree_range(bounds, Schema).value, row)})

\* C24: when IndexSlice.slice_index(b) succeeds, the returned IndexSlice is
\* restricted to b: its count and its stream cover exactly the index entries
\* matching b, not the entries of the enclosing slice.
C24_SliceIndexRestricts ==
    view.kind = "IndexSlice" =>
       /\ streamed => viewOut = RowsMatching(view.bounds)
       /\ viewCount # {} => viewCount = {Len(RowsMatching(view.bounds))}

\* C27: slicing a Merged view never widens it: every row streamed by
\* merged.slice(b) is also streamed by the merged view itself, so it still
\* satisfies the restriction of the right-hand index slice as well as that
\* of the left source.
C27_MergedSliceNeverWidens ==
    [][(view.kind = "Merged" /\ view'.kind # "Merged" /\ ~Merged_stream_panics(view))
          => SeqSet(Table_stream(view')) \subseteq SeqSet(Table_stream(view))]_vars

----------------------------------------------------------------------------
(* Claims about the operations of views (SpecFn) *)

\* C22: an Aggregate view can be neither sliced nor aggregated again: for
\* every Aggregate and every argument, group_by returns an Unsupported error
\* and the bounds validation of a slice returns an Unsupported error, and in
\* neither case is a new view produced.
C22_AggregateNotSlicedNorAggregated ==
    (fnCall.fn \in {"group_by", "validate_bounds"} /\ fnCall.view.kind = "Aggregate")
       => fnResult = Error("Unsupported")

\* group_by of an Aggregate by columns its source can be ordered by, and
\* the validation of bounds its source accepts
C22_Witness ==
    /\ fnCall.fn = "group_by"
    /\ fnCall.view.kind = "Aggregate"
    /\ fnCall.columns # <<>>
    /\ Aggregate_new(fnCall.view.source, fnCall.columns).kind = "Aggregate"
    /\ fnResult = Error("Unsupported")

\* the operations that order or reverse the rows of a view
OrderingCalls == {"table_order_by", "reversed", "validate_order"}

SliceContains(v, bounds) ==
    /\ Bounds_into_btree_range(v.bounds, Schema).kind = "Ok"
    /\ Bounds_into_btree_range(bounds, Schema).kind = "Ok"
    /\ BTreeRange_contains(Bounds_into_btree_range(v.bounds, Schema).value,
                           Bounds_into_btree_range(bounds, Schema).value)

\* C25: for an IndexSlice, validate_bounds(b) succeeds iff the slice's own
\* range contains the range of b, that is iff slice_index(b) succeeds;
\* bounds lying outside the slice are rejected by both operations.
C25_ValidateBoundsAgreesWithSliceIndex ==
    /\ (fnCall.fn = "slice_index")
          => (fnResult.kind = "IndexSlice" <=> SliceContains(fnCall.view, fnCall.bounds))
    /\ (fnCall.fn = "validate_bounds" /\ fnCall.view.kind = "IndexSlice")
          => /\ fnResult.kind = "Ok" <=> SliceContains(fnCall.view, fnCall.bounds)
             /\ fnResult.kind = "Ok" <=>
                   IndexSlice_slice_index(fnCall.view, fnCall.bounds).kind = "IndexSlice"

\* C26: a ColumnSelection accepts bounds (validate_bounds) or an order
\* (validate_order) that names only selected columns, provided its source
\* accepts them, a strict subset of the selected columns included, and
\* rejects with BadRequest any bounds or order naming a column outside the
\* selection.
C26_SelectionChecksNamedColumns ==
    /\ (fnCall.fn = "validate_order" /\ fnCall.view.kind = "ColumnSelection") =>
          LET named == SeqSet(fnCall.order)
              selected == SeqSet(fnCall.view.columns)
          IN  /\ (named \subseteq selected
                    /\ Table_validate_order(fnCall.view.source, fnCall.order).kind = "Ok")
                    => fnResult.kind = "Ok"
              /\ ~(named \subseteq selected) => fnResult = Error("BadRequest")
    /\ (fnCall.fn = "validate_bounds" /\ fnCall.view.kind = "ColumnSelection") =>
          LET named == DOMAIN fnCall.bounds
              selected == SeqSet(fnCall.view.columns)
          IN  /\ (named \subseteq selected
                    /\ Table_validate_bounds(fnCall.view.source, fnCall.bounds).kind = "Ok")
                    => fnResult.kind = "Ok"
              /\ ~(named \subseteq selected) => fnResult = Error("BadRequest")

\* C29: cast_axis(axis, ndim) returns a value a only with 0 <= a <= ndim,
\* and a = ndim only when the axis is absent: a non-negative axis below ndim
\* maps to itself, a negative axis -k with 1 <= k <= ndim maps to ndim - k,
\* an axis >= ndim is rejected, and a negative axis of magnitude greater
\* than ndim is rejected with an error rather than underflowing the
\* unsigned subtraction.
C29_CastAxisInRange ==
    fnCall.fn = "cast_axis" =>
       LET ndim == fnCall.ndim
       IN  /\ fnResult.kind \in {"Ok", "Err"}
           /\ fnResult.kind = "Ok" =>
                 /\ fnResult.value \in 0..ndim
                 /\ fnResult.value = ndim => fnCall.axis = {}
           /\ \A a \in fnCall.axis :
                 /\ (0 <= a /\ a < ndim) => fnResult = Ok(a)
                 /\ (a < 0 /\ Abs(a) <= ndim) => fnResult = Ok(ndim - Abs(a))
                 /\ a >= ndim => fnResult.kind = "Err"
                 /\ (a < 0 /\ Abs(a) > ndim) => fnResult.kind = "Err"

----------------------------------------------------------------------------
(* Claims about concatenate (SpecConcat) *)

\* the shape of the output of the call in progress
ShapeOut == Concatenate_shape_out(ccShape, ccAxis, Len(ccWrites))

\* the part of the output that the write of input i writes
Region(i) == Bounds_coords(Concatenate_bounds(ccShape, ccAxis, i), ShapeOut)

\* the output in which input i stands at index i of the new leading axis, or
\* in the block from i * d to (i + 1) * d of the chosen axis
Concatenated ==
    [c \in Coords(ShapeOut) |->
       IF ccAxis = {} THEN Element(c[1], Tail(c))
       ELSE LET a == (CHOOSE a \in ccAxis : TRUE) + 1
                d == ccShape[a]
            IN  Element(c[a] \div d, [c EXCEPT ![a] = c[a] % d])]

\* C28: in concatenate the parts of the output written by the writes of the
\* inputs are pairwise disjoint and together cover the whole output; whatever
\* the order in which the writes complete, the tensor returned holds input i
\* at index i of the new leading axis, or in the block [i*d, (i+1)*d) of the
\* chosen axis; and once a write has failed the handler returns no tensor
\* but an error.
C28_ConcatenateWritesDisjoint ==
    ccPc # "idle" =>
      /\ \A i, j \in Inputs : i # j => Region(i) \cap Region(j) = {}
      /\ UNION {Region(i) : i \in Inputs} = Coords(ShapeOut)
      /\ ccRet.kind = "Ok" =>
            /\ ccRet.value = Concatenated
            /\ \A i \in Inputs : ccWrites[i + 1] = "taken"
      /\ (ccPc = "done" /\ \E i \in Inputs : ccWrites[i + 1] \in {"err", "failed"}) =>
            ccRet.kind = "Err"

\* concatenate along an axis has returned the tensor of several inputs
C28_Witness ==
    /\ ccPc = "done"
    /\ ccRet.kind = "Ok"
    /\ ccAxis # {}
    /\ Len(ccWrites) > 1
    /\ \E c \in DOMAIN ccOut : ccOut[c].input > 0


----------------------------------------------------------------------------
(* Claims about the block store in Cluster::instantiate (SpecFn) *)

\* C30, as stated: when Cluster::instantiate fails because the class has no
\* path or because a member of the proto is invalid, be it by its kind or by
\* the schema of its chain, no directory has been looked up or created and no
\* chain has been loaded.
C30_AsStated ==
    (/\ fnCall.fn = "instantiate"
     /\ fnResult.kind = "Err"
     /\ \/ fnCall.class.path = "None"
        \/ \E id \in DOMAIN fnCall.class.proto :
              ~(ValidMember(fnCall.class.proto[id]) /\ fnCall.class.proto[id].schema_ok))
      => fnStore = Store_untouched

\* C30, amended: when Cluster::instantiate fails because the class has no
\* path or because a member of the proto is neither a Get reference whose
\* path names a chain type nor an operation definition, no directory has been
\* looked up or created and no chain has been loaded.
C30_StoreUntouchedOnRejection ==
    (/\ fnCall.fn = "instantiate"
     /\ \/ fnCall.class.path = "None"
        \/ \E id \in DOMAIN fnCall.class.proto : ~ValidMember(fnCall.class.proto[id]))
      => /\ fnResult.kind = "Err"
         /\ fnStore = Store_untouched

\* instantiate has rejected a class that has a path, for a member that comes
\* after a chain
C30_Witness ==
    /\ fnCall.fn = "instantiate"
    /\ fnCall.class.path = "Some"
    /\ fnResult.kind = "Err"
    /\ fnStore = Store_untouched
    /\ \E id \in DOMAIN fnCall.class.proto :
          /\ ~ValidMember(fnCall.class.proto[id])
          /\ \E chain \in 1..(id - 1) : fnCall.class.proto[chain].kind = "Get"
                                        /\ fnCall.class.proto[chain].chain

====
